---- MODULE Spec2Model ----
(***************************************************************************)
(* State-machine model of the clawd-throttle request path: the session     *)
(* store (model pinning), the dedup cache, the rate limiter, the router    *)
(* and the HTTP request handler that composes them.                        *)
(*                                                                         *)
(* Time is counted in abstract ticks.  Date.now() is the variable now; it  *)
(* starts at 1 (the epoch clock is never 0, and JavaScript treats a        *)
(* timestamp of 0 as "unset").  The durations (session timeout, dedup TTL, *)
(* cooldown, failure window) are the constructor/default parameters of the *)
(* stores, instantiated in ticks.                                          *)
(***************************************************************************)
EXTENDS Integers, Sequences, FiniteSets, TLC

\* ------------------------------------------------------------------ bounds
MaxTime == 4
NumSessions == 1
NumKeys == 1
NumReqs == 3
NumCalls == 1
MaxEvents == 2
MaxBeats == 1

\* ------------------------------------------------------- program constants
\* SessionStore constructor parameter timeoutMs (idle expiry), in ticks.
TimeoutMs == 2
\* hasRecentFailure default parameter withinMs (failure window), in ticks.
WithinMs == 1
\* DedupCache constructor parameter ttlMs, in ticks.
TtlMs == 1
\* markRateLimited default parameter cooldownMs, in ticks.
CooldownMs == 2
\* AnthropicDualKey cooldownMs (60 s) as ticks.
KeyCooldownMs == 2

\* ---------------------------------------------------------------- domains
SessionIds == 1..NumSessions
Keys == 1..NumKeys
Reqs == 1..NumReqs
\* One request more than NumReqs, for the specification of retried waiters.
AllReqs == 1..(NumReqs + 1)
Tiers == {"simple", "standard", "complex"}
Models == {"flash", "sonnet", "opus"}
\* The model ids passed to set() in the store-level specification.
PinModels == {"flash", "opus"}

\* TIER_RANK: simple < standard < complex
TIER_RANK == [t \in Tiers |-> CASE t = "simple" -> 0 [] t = "standard" -> 1 [] t = "complex" -> 2]

\* JavaScript undefined, as a value comparable with any record.
Undefined == [undefined |-> TRUE]

\* Map.set / Map.delete on a function whose domain is the set of keys present.
MapSet(m, k, v) == [x \in (DOMAIN m) \cup {k} |-> IF x = k THEN v ELSE m[x]]
MapDelete(m, k) == [x \in (DOMAIN m) \ {k} |-> m[x]]
EmptyMap == [x \in {} |-> Undefined]

VARIABLES
  now,        \* Date.now()
  sessions,   \* SessionStore.sessions : sessionId -> SessionEntry
  lastCall,   \* the most recent store call and the value it returned
  setHigh,    \* history: highest tier rank passed to set(id, ..) so far (-1: none)
  runHigh,    \* history: highest tier rank passed to set(id, ..) in the current run of
              \* calls no two of which are more than TimeoutMs apart
  lastSetAt,  \* history: time of the latest set(id, ..) (0: never)
  failMark,   \* history: time of the latest markFailed(id) on an existing session
              \* that no hasRecentFailure(id) has answered true since (0: none)
  dedup,      \* DedupCache: [completed, inflight, promises]
  cooldowns,  \* RateLimiter.cooldowns : modelId -> expiresAt
  req,        \* the requests: inputs, position in handleApiRequest, response
  anthropic,  \* config.anthropic: which keys are configured, preferSetupToken
  dualKey,    \* AnthropicDualKey: setupTokenCooldownUntil, enterpriseCooldownUntil
  calls,      \* the Anthropic dispatches: keys selected, attempts, result
  last429At,  \* history: time of the latest upstream 429 on each key type within
              \* the cooldown window (0: none)
  sse,        \* handleStreamingResponse: the upstream body, the SSE parser's state,
              \* what was written to the client, the log entries appended
  markedUntil \* history: expiresAt of the markRateLimited executed last on each model
              \* (0: never marked, cleared since, or lapsed)

keyVars == <<anthropic, dualKey, calls, last429At>>
streamVars == <<sse>>
limiterVars == <<markedUntil>>
vars == <<now, sessions, lastCall, setHigh, runHigh, lastSetAt, failMark, dedup, cooldowns, req, keyVars,
         streamVars, limiterVars>>
history == <<lastCall, setHigh, runHigh, lastSetAt, failMark>>
handlerVars == <<dedup, cooldowns, req, keyVars, streamVars, limiterVars>>

\* ----------------------------------------------------------- SessionStore
\* A SessionEntry; lastFailedAt = 0 stands for "not set" (falsy).
SessionEntry(m, t, used, failed) ==
  [modelId |-> m, tier |-> t, lastUsedAt |-> used, lastFailedAt |-> failed]

Pin(m, t) == [modelId |-> m, tier |-> t]

\* Mutant of get: an entry idle for exactly the timeout is expired already.
SessionGetExpireAtTimeout(ss, id, t) ==
  IF id \notin DOMAIN ss THEN [map |-> ss, res |-> Undefined]
  ELSE IF t - ss[id].lastUsedAt >= TimeoutMs
       THEN [map |-> MapDelete(ss, id), res |-> Undefined]
       ELSE [map |-> ss, res |-> Pin(ss[id].modelId, ss[id].tier)]

\* get(sessionId): lazy expiry on read.  Returns the map after the call and the result.
SessionGet(ss, id, t) ==
  IF id \notin DOMAIN ss THEN [map |-> ss, res |-> Undefined]
  ELSE IF t - ss[id].lastUsedAt > TimeoutMs
       THEN [map |-> MapDelete(ss, id), res |-> Undefined]
       ELSE [map |-> ss, res |-> Pin(ss[id].modelId, ss[id].tier)]

\* Mutants of the comparison: replace on any different tier / on an equal tier too.
IsUpgradeAnyChange(tier, existingTier) == TIER_RANK[tier] # TIER_RANK[existingTier]
IsUpgradeOrEqual(tier, existingTier) == TIER_RANK[tier] >= TIER_RANK[existingTier]

\* The comparison of set(): only a strictly higher tier upgrades the pin.
IsUpgrade(tier, existingTier) == TIER_RANK[tier] > TIER_RANK[existingTier]

\* set(sessionId, modelId, tier): every branch stores a fresh entry object, which
\* carries no lastFailedAt.
SessionSet(ss, id, m, tier, t) ==
  LET g == SessionGet(ss, id, t)
      existing == g.res
  IN IF existing # Undefined
     THEN IF IsUpgrade(tier, existing.tier)
          THEN [map |-> MapSet(g.map, id, SessionEntry(m, tier, t, 0)),
                res |-> Pin(m, tier)]
          ELSE [map |-> MapSet(g.map, id, SessionEntry(existing.modelId, existing.tier, t, 0)),
                res |-> existing]
     ELSE [map |-> MapSet(g.map, id, SessionEntry(m, tier, t, 0)),
           res |-> Pin(m, tier)]

\* markFailed(sessionId): records the failure time on an existing entry only.
SessionMarkFailed(ss, id, t) ==
  IF id \in DOMAIN ss THEN [ss EXCEPT ![id].lastFailedAt = t] ELSE ss

\* hasRecentFailure(sessionId, withinMs): one-shot read of the failure marker.
SessionHasRecentFailure(ss, id, t) ==
  IF id \notin DOMAIN ss \/ ss[id].lastFailedAt = 0
  THEN [map |-> ss, res |-> FALSE]
  ELSE LET isRecent == t - ss[id].lastFailedAt <= WithinMs
       IN [map |-> IF isRecent THEN [ss EXCEPT ![id].lastFailedAt = 0] ELSE ss,
           res |-> isRecent]

\* cleanup(): prune every expired session.
SessionCleanup(ss, t) ==
  LET keep == {id \in DOMAIN ss : ~(t - ss[id].lastUsedAt > TimeoutMs)}
  IN [id \in keep |-> ss[id]]

\* ------------------------------------------------------------- DedupCache
\* The cache is the record [completed, inflight, promises]: completed maps a key to a
\* CachedResponse, inflight maps a key to the promise of its InflightEntry, and
\* promises holds every promise created so far, named by the request that created it.
CachedResponse(status, body, t) == [status |-> status, body |-> body, completedAt |-> t]

PendingPromise == [state |-> "pending", value |-> Undefined]

\* Mutant of the TTL test: an entry exactly ttl old counts as expired.
IsExpiredAtTtl(entry, t) == t - entry.completedAt >= TtlMs

\* The TTL test of getCompleted and prune.
IsExpired(entry, t) == t - entry.completedAt > TtlMs

\* A getCompleted that hands the cached response out once: a hit removes the entry.
DedupGetCompletedConsume(dc, k, t) ==
  IF k \notin DOMAIN dc.completed THEN [dc |-> dc, res |-> Undefined]
  ELSE [dc |-> [dc EXCEPT !.completed = MapDelete(@, k)],
        res |-> IF IsExpired(dc.completed[k], t) THEN Undefined ELSE dc.completed[k]]

\* getCompleted(key): the cache after the call and the entry found (or undefined).
DedupGetCompleted(dc, k, t) ==
  IF k \notin DOMAIN dc.completed THEN [dc |-> dc, res |-> Undefined]
  ELSE IF IsExpired(dc.completed[k], t)
       THEN [dc |-> [dc EXCEPT !.completed = MapDelete(@, k)], res |-> Undefined]
       ELSE [dc |-> dc, res |-> dc.completed[k]]

\* markInflight(key), called by request r: join the existing entry, or create one.
DedupMarkInflight(dc, k, r) ==
  IF k \in DOMAIN dc.inflight
  THEN [dc |-> dc, isWaiting |-> TRUE, promise |-> dc.inflight[k]]
  ELSE [dc |-> [dc EXCEPT !.inflight = MapSet(@, k, r),
                          !.promises = [@ EXCEPT ![r] = PendingPromise]],
        isWaiting |-> FALSE, promise |-> r]

\* prune(): drop every expired completed entry.
DedupPrune(dc, t) ==
  LET keep == {k \in DOMAIN dc.completed : ~IsExpired(dc.completed[k], t)}
  IN [dc EXCEPT !.completed = [k \in keep |-> dc.completed[k]]]

\* Mutant of complete(): the in-flight entry is resolved but left in the map.
DedupCompleteKeepInflight(dc, k, response, t) ==
  LET settled == IF k \in DOMAIN dc.inflight
                 THEN [dc EXCEPT !.promises =
                         [@ EXCEPT ![dc.inflight[k]] = [state |-> "resolved", value |-> response]]]
                 ELSE dc
  IN DedupPrune([settled EXCEPT !.completed = MapSet(@, k, response)], t)

\* complete(key, response): resolve and remove the in-flight entry found under the
\* key, store the response, prune.
DedupComplete(dc, k, response, t) ==
  LET settled == IF k \in DOMAIN dc.inflight
                 THEN [dc EXCEPT !.promises =
                         [@ EXCEPT ![dc.inflight[k]] = [state |-> "resolved", value |-> response]],
                       !.inflight = MapDelete(@, k)]
                 ELSE dc
  IN DedupPrune([settled EXCEPT !.completed = MapSet(@, k, response)], t)

\* Mutant of removeInflight(): the entry is removed, its promise is left pending.
DedupRemoveInflightNoReject(dc, k) ==
  IF k \in DOMAIN dc.inflight THEN [dc EXCEPT !.inflight = MapDelete(@, k)] ELSE dc

\* Mutant of removeInflight(): the promise is rejected, the entry is left in the map.
DedupRemoveInflightKeepEntry(dc, k) ==
  IF k \in DOMAIN dc.inflight
  THEN [dc EXCEPT !.promises =
          [@ EXCEPT ![dc.inflight[k]] = [state |-> "rejected", value |-> Undefined]]]
  ELSE dc

\* removeInflight(key, error): reject and remove the in-flight entry found under the key.
DedupRemoveInflight(dc, k) ==
  IF k \in DOMAIN dc.inflight
  THEN [dc EXCEPT !.promises =
          [@ EXCEPT ![dc.inflight[k]] = [state |-> "rejected", value |-> Undefined]],
        !.inflight = MapDelete(@, k)]
  ELSE dc

\* ------------------------------------------------------------ RateLimiter
\* Mutant of markRateLimited: an existing later expiry is kept.
MarkRateLimitedKeepLater(cds, m, t, cooldownMs) ==
  IF m \in DOMAIN cds /\ cds[m] > t + cooldownMs THEN cds ELSE MapSet(cds, m, t + cooldownMs)

\* markRateLimited(modelId, cooldownMs): cooldowns maps a model id to its expiresAt.
MarkRateLimitedFor(cds, m, t, cooldownMs) == MapSet(cds, m, t + cooldownMs)

\* markRateLimited(modelId) with the default cooldown.
MarkRateLimited(cds, m, t) == MarkRateLimitedFor(cds, m, t, CooldownMs)

\* clear(modelId).
LimiterClear(cds, m) == MapDelete(cds, m)

\* isRateLimited(modelId): the answer (the read also prunes, see PruneRead).
IsRateLimited(cds, m, t) == m \in DOMAIN cds /\ ~(t >= cds[m])

\* The cooldown map after isRateLimited has been asked for every model of ms.
PruneRead(cds, ms, t) ==
  LET drop == {m \in (DOMAIN cds) \cap ms : t >= cds[m]}
  IN [m \in (DOMAIN cds) \ drop |-> cds[m]]

\* ------------------------------------------------- registry and routing table
\* The catalog: provider and cost order (inputCostPerMTok) of every model.
ModelProvider == [m \in Models |-> IF m = "flash" THEN "google" ELSE "anthropic"]
ModelCost == [m \in Models |-> CASE m = "flash" -> 1 [] m = "sonnet" -> 3 [] m = "opus" -> 15]

\* The providers with an API key in the configuration.
ConfiguredProviders == {"google", "anthropic"}

\* routingTable[config.mode]: tier -> ordered preference list.
RoutingTable ==
  [t \in Tiers |-> CASE t = "simple" -> <<"flash", "sonnet">>
                     [] t = "standard" -> <<"sonnet", "flash">>
                     [] t = "complex" -> <<"opus", "sonnet">>]

\* No model found (undefined / null result of a registry lookup).
NoModel == ""

SeqToSet(q) == {q[i] : i \in 1..Len(q)}

\* A model can be routed to: its provider is configured and it is not rate-limited.
IsAvailable(cds, m, t) == ModelProvider[m] \in ConfiguredProviders /\ ~IsRateLimited(cds, m, t)

\* registry.resolvePreference(list, config): the first available model of the list.
ResolvePreference(list, cds, t) ==
  LET ok == {i \in 1..Len(list) : IsAvailable(cds, list[i], t)}
  IN IF ok = {} THEN NoModel
     ELSE list[CHOOSE i \in ok : \A j \in ok : i <= j]

\* registry.getCheapestAvailable(config): the cheapest available model of the catalog.
GetCheapestAvailable(cds, t) ==
  LET ok == {m \in Models : IsAvailable(cds, m, t)}
  IN IF ok = {} THEN NoModel
     ELSE CHOOSE m \in ok : \A n \in ok : ModelCost[m] <= ModelCost[n]

\* -------------------------------------------------------- AnthropicDualKey
KeyTypes == {"setup-token", "enterprise"}

\* "No key" (null).
NoKey == "none"

OtherKey(keyType) == IF keyType = "setup-token" THEN "enterprise" ELSE "setup-token"

\* config.anthropic: hasSetup = !!setupToken, hasEnterprise = !!apiKey.
AnthropicConfigs == [hasSetup : BOOLEAN, hasEnterprise : BOOLEAN, preferSetup : BOOLEAN]

\* The fields of a new AnthropicDualKey.
NewDualKey == [setupTokenCooldownUntil |-> 0, enterpriseCooldownUntil |-> 0]

\* The cooldown field of a key type.
CooldownUntil(dk, keyType) ==
  IF keyType = "setup-token" THEN dk.setupTokenCooldownUntil ELSE dk.enterpriseCooldownUntil

SetCooldownUntil(dk, keyType, until) ==
  IF keyType = "setup-token" THEN [dk EXCEPT !.setupTokenCooldownUntil = until]
  ELSE [dk EXCEPT !.enterpriseCooldownUntil = until]

\* isCoolingDown(keyType): an expired cooldown is cleared by the read.
IsCoolingDown(dk, keyType, t) ==
  LET until == CooldownUntil(dk, keyType)
  IN IF until = 0 THEN [dk |-> dk, res |-> FALSE]
     ELSE IF t >= until THEN [dk |-> SetCooldownUntil(dk, keyType, 0), res |-> FALSE]
     ELSE [dk |-> dk, res |-> TRUE]

\* markCooldown(keyType).
MarkCooldown(dk, keyType, t) == SetCooldownUntil(dk, keyType, t + KeyCooldownMs)

\* Mutant of selectKeys: the other key is offered as fallback even while it cools down.
SelectKeysAnyFallback(cfg, dk, t) ==
  LET s == IsCoolingDown(dk, "setup-token", t)
      e == IsCoolingDown(s.dk, "enterprise", t)
      pref == IF cfg.preferSetup THEN "setup-token" ELSE "enterprise"
      prefCooling == IF cfg.preferSetup THEN s.res ELSE e.res
  IN IF ~cfg.hasSetup /\ ~cfg.hasEnterprise THEN [dk |-> dk, primary |-> NoKey, fallback |-> NoKey]
     ELSE IF ~cfg.hasEnterprise THEN [dk |-> e.dk, primary |-> "setup-token", fallback |-> NoKey]
     ELSE IF ~cfg.hasSetup THEN [dk |-> e.dk, primary |-> "enterprise", fallback |-> NoKey]
     ELSE IF ~prefCooling THEN [dk |-> e.dk, primary |-> pref, fallback |-> OtherKey(pref)]
     ELSE [dk |-> e.dk, primary |-> OtherKey(pref), fallback |-> NoKey]

\* selectKeys(): primary and fallback key types (NoKey: null), and the fields after
\* the two isCoolingDown reads.
SelectKeys(cfg, dk, t) ==
  IF ~cfg.hasSetup /\ ~cfg.hasEnterprise
  THEN [dk |-> dk, primary |-> NoKey, fallback |-> NoKey]
  ELSE
    LET s == IsCoolingDown(dk, "setup-token", t)
        e == IsCoolingDown(s.dk, "enterprise", t)
        setupCooling == s.res
        enterpriseCooling == e.res
    IN IF cfg.hasSetup /\ ~cfg.hasEnterprise
       THEN [dk |-> e.dk, primary |-> "setup-token", fallback |-> NoKey]
       ELSE IF ~cfg.hasSetup /\ cfg.hasEnterprise
       THEN [dk |-> e.dk, primary |-> "enterprise", fallback |-> NoKey]
       ELSE IF cfg.preferSetup
       THEN (IF ~setupCooling
             THEN [dk |-> e.dk, primary |-> "setup-token",
                   fallback |-> IF enterpriseCooling THEN NoKey ELSE "enterprise"]
             ELSE [dk |-> e.dk, primary |-> "enterprise", fallback |-> NoKey])
       ELSE (IF ~enterpriseCooling
             THEN [dk |-> e.dk, primary |-> "enterprise",
                   fallback |-> IF setupCooling THEN NoKey ELSE "setup-token"]
             ELSE [dk |-> e.dk, primary |-> "setup-token", fallback |-> NoKey])

\* ----------------------------------------------------------------- router
TIER_ORDER == <<"simple", "standard", "complex">>

\* TIER_ORDER.indexOf(tier), 0-based as in the source.
TierIndex(tier) == TIER_RANK[tier]

NoOverride == [kind |-> "none", forcedModelId |-> ""]

\* A classification: its tier and whether its confidence is below 0.70.
Classification(tier, lowConf) == [tier |-> tier, lowConfidence |-> lowConf]

\* Mutant of the effective tier: the confidence step-up is skipped once the
\* tool-calling floor has raised the tier.
EffectiveTierFloorOnly(classification, override) ==
  LET raised == override.kind = "tool_calling" /\ TIER_RANK[classification.tier] < TIER_RANK["standard"]
  IN IF raised THEN "standard"
     ELSE IF classification.lowConfidence /\ classification.tier # "complex"
          THEN (IF classification.tier = "simple" THEN "standard" ELSE "complex")
          ELSE classification.tier

\* Mutant of the effective tier: no confidence step-up for a standard classification.
EffectiveTierStepSimpleOnly(classification, override) ==
  IF classification.tier = "simple"
  THEN (IF classification.lowConfidence
        THEN (IF override.kind = "tool_calling" THEN "complex" ELSE "standard")
        ELSE (IF override.kind = "tool_calling" THEN "standard" ELSE "simple"))
  ELSE classification.tier

\* The tier routeRequest looks the routing table up with: tool-calling floor, then
\* confidence step-up.
EffectiveTier(classification, override) ==
  LET floored == IF override.kind = "tool_calling" /\ TierIndex(classification.tier) < TierIndex("standard")
                 THEN "standard" ELSE classification.tier
  IN IF classification.lowConfidence /\ floored # "complex"
     THEN TIER_ORDER[TierIndex(floored) + 2]
     ELSE floored

\* Mutant of routeRequest: an exhausted preference list is an error, no fallback.
RouteRequestNoFallback(classification, override, cds, t) ==
  IF override.kind # "none" /\ override.forcedModelId # ""
  THEN [ok |-> TRUE, model |-> override.forcedModelId, tier |-> classification.tier,
        override |-> override.kind, list |-> <<>>, fallback |-> FALSE]
  ELSE
    LET effectiveTier == EffectiveTier(classification, override)
        preferenceList == RoutingTable[effectiveTier]
        model == ResolvePreference(preferenceList, cds, t)
    IN IF model # NoModel
       THEN [ok |-> TRUE, model |-> model, tier |-> effectiveTier,
             override |-> IF override.kind = "tool_calling" THEN "tool_calling" ELSE "none",
             list |-> preferenceList, fallback |-> FALSE]
       ELSE [ok |-> FALSE, error |-> "no_available_model"]

\* routeRequest(classification, mode, override, registry, config, routingTable).
\* ok = FALSE stands for the thrown error.
RouteRequest(classification, override, cds, t) ==
  IF override.kind # "none" /\ override.forcedModelId # ""
  THEN [ok |-> TRUE, model |-> override.forcedModelId, tier |-> classification.tier,
        override |-> override.kind, list |-> <<>>, fallback |-> FALSE]
  ELSE
    LET effectiveTier == EffectiveTier(classification, override)
        preferenceList == RoutingTable[effectiveTier]
        overrideKind == IF override.kind = "tool_calling" THEN "tool_calling" ELSE "none"
        model == ResolvePreference(preferenceList, cds, t)
        fallback == GetCheapestAvailable(cds, t)
    IN IF model # NoModel
       THEN [ok |-> TRUE, model |-> model, tier |-> effectiveTier,
             override |-> overrideKind, list |-> preferenceList, fallback |-> FALSE]
       ELSE IF fallback = NoModel
            THEN [ok |-> FALSE, error |-> "no_available_model"]
            ELSE [ok |-> TRUE, model |-> fallback, tier |-> effectiveTier,
                  override |-> "none", list |-> preferenceList, fallback |-> TRUE]

\* The cooldown map after routeRequest's reads of the rate limiter.
RouteReads(classification, override, cds, t) ==
  IF override.kind # "none" /\ override.forcedModelId # "" THEN cds
  ELSE LET list == RoutingTable[EffectiveTier(classification, override)]
       IN IF ResolvePreference(list, cds, t) # NoModel
          THEN PruneRead(cds, SeqToSet(list), t)
          ELSE PruneRead(cds, Models, t)

\* Mutant of the session branch: after a recent failure the classification is
\* escalated but the decision of the first lookup is kept.
ApplySessionPinNoReroute(sid, classification, override, decision, ss, cds, t) ==
  IF sid = 0
  THEN [ok |-> TRUE, decision |-> decision, classification |-> classification,
        routed |-> decision.model, sessions |-> ss, cooldowns |-> cds]
  ELSE
    LET h == SessionHasRecentFailure(ss, sid, t)
        escalate == h.res /\ TierIndex(classification.tier) < Len(TIER_ORDER) - 1
        cls2 == IF escalate
                THEN [classification EXCEPT !.tier = TIER_ORDER[TierIndex(classification.tier) + 2]]
                ELSE classification
        pinResult == SessionSet(h.map, sid, decision.model, cls2.tier, t)
    IN [ok |-> TRUE,
        decision |-> IF pinResult.res.modelId # decision.model
                     THEN [decision EXCEPT !.model = pinResult.res.modelId]
                     ELSE decision,
        classification |-> cls2, routed |-> decision.model,
        sessions |-> pinResult.map, cooldowns |-> cds]

\* The session-pinning step of classifyAndRouteWithSession: the session id sid
\* (0: no X-Session-ID header), the classification and the first decision.
\* Returns the final decision, the classification, the model routeRequest returned
\* last (the one the pin may replace), and the stores after the call.
ApplySessionPin(sid, classification, override, decision, ss, cds, t) ==
  IF sid = 0
  THEN [ok |-> TRUE, decision |-> decision, classification |-> classification,
        routed |-> decision.model, sessions |-> ss, cooldowns |-> cds]
  ELSE
    LET h == SessionHasRecentFailure(ss, sid, t)
        escalate == h.res /\ TierIndex(classification.tier) < Len(TIER_ORDER) - 1
        cls2 == IF escalate
                THEN [classification EXCEPT !.tier = TIER_ORDER[TierIndex(classification.tier) + 2]]
                ELSE classification
        dec2 == IF escalate THEN RouteRequest(cls2, override, cds, t) ELSE decision
        cds2 == IF escalate THEN RouteReads(cls2, override, cds, t) ELSE cds
    IN IF ~dec2.ok
       THEN [ok |-> FALSE, error |-> dec2.error, sessions |-> h.map, cooldowns |-> cds2]
       ELSE LET pinResult == SessionSet(h.map, sid, dec2.model, cls2.tier, t)
            IN [ok |-> TRUE,
                decision |-> IF pinResult.res.modelId # dec2.model
                             THEN [dec2 EXCEPT !.model = pinResult.res.modelId]
                             ELSE dec2,
                classification |-> cls2, routed |-> dec2.model,
                sessions |-> pinResult.map, cooldowns |-> cds2]

\* classifyAndRouteWithSession(...): route, then pin.
ClassifyAndRouteWithSession(sid, classification, override, ss, cds, t) ==
  LET decision == RouteRequest(classification, override, cds, t)
      cds1 == RouteReads(classification, override, cds, t)
  IN IF ~decision.ok
     THEN [ok |-> FALSE, error |-> decision.error, sessions |-> ss, cooldowns |-> cds1]
     ELSE ApplySessionPin(sid, classification, override, decision, ss, cds1, t)

\* ------------------------------------------------------ override detector
\* The aliases of the force-model header and the models they name.
FORCE_MODEL_MAP == [alias \in {"opus", "sonnet", "flash"} |-> alias]

\* The model hierarchy, cheapest first.
MODEL_HIERARCHY == <<"flash", "sonnet", "opus">>

\* The last user message: an ordinary prompt or a heartbeat phrase.
Contents == {"plain", "ping"}

\* isHeartbeatOrSummary(text): the text matches one of the anchored patterns.
IsHeartbeatOrSummary(content) == content = "ping"

\* `force_${forceModel}`.
ForceKind(alias) ==
  CASE alias = "opus" -> "force_opus" [] alias = "sonnet" -> "force_sonnet"
    [] alias = "flash" -> "force_flash"

\* getForceModel(req): the header value when it is a known alias, else undefined ("").
GetForceModel(header) ==
  IF header # "" /\ header \in DOMAIN FORCE_MODEL_MAP THEN header ELSE ""

\* Mutant of the rule order: the force header and the inline commands are tested
\* before the heartbeat pattern.
DetectOverridesForceFirst(content, forceModel) ==
  IF forceModel # "" /\ forceModel \in DOMAIN FORCE_MODEL_MAP
  THEN [kind |-> ForceKind(forceModel), forcedModelId |-> FORCE_MODEL_MAP[forceModel]]
  ELSE IF content = "/opus" THEN [kind |-> "force_opus", forcedModelId |-> FORCE_MODEL_MAP["opus"]]
  ELSE IF content = "/sonnet" THEN [kind |-> "force_sonnet", forcedModelId |-> FORCE_MODEL_MAP["sonnet"]]
  ELSE IF content = "/flash" THEN [kind |-> "force_flash", forcedModelId |-> FORCE_MODEL_MAP["flash"]]
  ELSE IF IsHeartbeatOrSummary(content)
  THEN [kind |-> "heartbeat", forcedModelId |-> MODEL_HIERARCHY[1]]
  ELSE NoOverride

\* detectOverrides(messages, forceModel, undefined, logReader): heartbeat first, then
\* the force header, then an inline command; no parent request id is passed.
DetectOverrides(content, forceModel) ==
  IF IsHeartbeatOrSummary(content)
  THEN [kind |-> "heartbeat", forcedModelId |-> MODEL_HIERARCHY[1]]
  ELSE IF forceModel # "" /\ forceModel \in DOMAIN FORCE_MODEL_MAP
  THEN [kind |-> ForceKind(forceModel), forcedModelId |-> FORCE_MODEL_MAP[forceModel]]
  ELSE IF content = "/opus" THEN [kind |-> "force_opus", forcedModelId |-> FORCE_MODEL_MAP["opus"]]
  ELSE IF content = "/sonnet" THEN [kind |-> "force_sonnet", forcedModelId |-> FORCE_MODEL_MAP["sonnet"]]
  ELSE IF content = "/flash" THEN [kind |-> "force_flash", forcedModelId |-> FORCE_MODEL_MAP["flash"]]
  ELSE NoOverride

\* MODEL_HIERARCHY.indexOf(modelId), 0-based; -1 when the model is not in it.
HierarchyIndex(modelId) ==
  IF \E i \in DOMAIN MODEL_HIERARCHY : MODEL_HIERARCHY[i] = modelId
  THEN (CHOOSE i \in DOMAIN MODEL_HIERARCHY : MODEL_HIERARCHY[i] = modelId) - 1
  ELSE 0 - 1

\* Mutant of the step-down: a sub-agent always gets the floor of the hierarchy.
StepDownModelToFloor(parentModelId) ==
  IF HierarchyIndex(parentModelId) = 0 - 1 THEN parentModelId ELSE MODEL_HIERARCHY[1]

\* stepDownModel(parentModelId): one position down, the floor and unknown models
\* unchanged.
StepDownModel(parentModelId) ==
  LET parentIndex == HierarchyIndex(parentModelId)
  IN IF parentIndex = 0 - 1 THEN parentModelId
     ELSE IF parentIndex = 0 THEN parentModelId
     ELSE MODEL_HIERARCHY[parentIndex]

\* detectOverrides(messages, forceModel, parentRequestId, logReader): the rules of
\* DetectOverrides, then the sub-agent rule.  No parent request id is 0; the log maps
\* the request ids it holds to the model selected for them.
DetectOverridesFor(content, forceModel, parentRequestId, log) ==
  LET first == DetectOverrides(content, forceModel)
  IN IF first.kind # "none" THEN first
     ELSE IF parentRequestId # 0 /\ parentRequestId \in DOMAIN log
     THEN LET selectedModel == log[parentRequestId]
              steppedDown == StepDownModel(selectedModel)
          IN [kind |-> IF steppedDown = selectedModel THEN "sub_agent_inherit"
                       ELSE "sub_agent_stepdown",
              forcedModelId |-> steppedDown]
     ELSE NoOverride

\* detectOverrides(..., hasTools): a request with tool definitions that no earlier
\* rule matches is a tool_calling request.
DetectOverridesTools(content, forceModel, parentRequestId, log, hasTools) ==
  LET override == DetectOverridesFor(content, forceModel, parentRequestId, log)
  IN IF override.kind = "none" /\ hasTools
     THEN [kind |-> "tool_calling", forcedModelId |-> ""]
     ELSE override

\* ------------------------------------------------------- request handling
\* A request that has not arrived yet.
IdleReq ==
  [pc |-> "idle", key |-> 0, stream |-> FALSE, session |-> 0,
   cls |-> Classification("simple", FALSE), override |-> NoOverride,
   path |-> "none", awaiting |-> 0, model |-> "", reply |-> Undefined,
   dispatches |-> 0, logged |-> 0, overlap |-> {}, limitedPick |-> FALSE,
   thrown |-> FALSE, tier |-> "", clsTier |-> "", headers |-> FALSE, routed |-> "",
   error |-> 0, forceHeader |-> "", clientFormat |-> "anthropic", readError |-> FALSE]

NoPromise == [state |-> "none", value |-> Undefined]

\* The response the client receives.
Reply(status, body) == [status |-> status, body |-> body]

\* The response body opts.formatResponse builds for request r from its own upstream
\* answer, in the format of r's endpoint.
ResponseBody(r) == [from |-> r, format |-> req[r].clientFormat]

\* The error response the server sends for an error thrown by the handler.
ErrorReply(status) == Reply(status, [error |-> status])

\* The status of that response for an upstream error: 429 and 401 are re-exposed,
\* any other upstream status is reported as 502.
UpstreamErrorStatus(status) == IF status \in {401, 429} THEN status ELSE 502

\* Mutant of the stream test: streaming requests go through the dedup cache too.
UsesDedupAlways(stream) == TRUE

\* `if (!parsed.stream)`: only non-streaming requests use the dedup cache.
UsesDedup(stream) == ~stream

\* A waiter whose promise has settled: its continuation is queued as a microtask and
\* runs before any new request or upstream answer is handled.
RunnableWaiter ==
  \E w \in AllReqs : req[w].pc = "waiting" /\ dedup.promises[req[w].awaiting].state # "pending"

\* At routing time the model dispatched to is rate-limited, is in the preference list
\* of the lookup, and some model is available.
IsLimitedPick(rq, m, cds, t) ==
  /\ m \in SeqToSet(RoutingTable[EffectiveTier(rq.cls, rq.override)])
  /\ IsRateLimited(cds, m, t)
  /\ \E n \in Models : IsAvailable(cds, n, t)

\* The try block of the non-streaming branch up to `await dispatch(...)`, and its
\* catch when routing throws.  rq is the request, dc the cache on entry.
FreshStart(r, rq, dc) ==
  LET cr == ClassifyAndRouteWithSession(rq.session, rq.cls, rq.override, sessions, cooldowns, now)
  IN IF cr.ok
     THEN /\ req' = [req EXCEPT ![r] =
                       [rq EXCEPT !.pc = "dispatching", !.model = cr.decision.model,
                                  !.tier = cr.decision.tier,
                                  !.clsTier = cr.classification.tier,
                                  !.routed = cr.routed,
                                  !.headers = TRUE,
                                  !.dispatches = @ + 1,
                                  !.limitedPick = IsLimitedPick(rq, cr.decision.model, cooldowns, now)]]
          /\ dedup' = dc
          /\ sessions' = cr.sessions
          /\ cooldowns' = cr.cooldowns
     ELSE /\ req' = [req EXCEPT ![r] = [rq EXCEPT !.pc = "done", !.thrown = TRUE,
                                                  !.reply = ErrorReply(503)]]
          /\ dedup' = DedupRemoveInflight(dc, rq.key)
          /\ sessions' = IF rq.session # 0 THEN SessionMarkFailed(cr.sessions, rq.session, now)
                         ELSE cr.sessions
          /\ cooldowns' = cr.cooldowns

\* The streaming branch up to `await streamDispatch(...)`: routing is outside the try.
StreamStart(r, rq) ==
  LET cr == ClassifyAndRouteWithSession(rq.session, rq.cls, rq.override, sessions, cooldowns, now)
  IN /\ req' = [req EXCEPT ![r] =
                  IF cr.ok
                  THEN [rq EXCEPT !.pc = "streamDispatching", !.path = "stream",
                                  !.model = cr.decision.model, !.dispatches = @ + 1,
                                  !.tier = cr.decision.tier,
                                  !.clsTier = cr.classification.tier,
                                  !.routed = cr.routed,
                                  !.headers = TRUE,
                                  !.limitedPick = IsLimitedPick(rq, cr.decision.model, cooldowns, now)]
                  ELSE [rq EXCEPT !.pc = "done", !.path = "stream", !.thrown = TRUE,
                                  !.reply = ErrorReply(503)]]
     /\ sessions' = cr.sessions
     /\ cooldowns' = cr.cooldowns
     /\ UNCHANGED dedup

\* The same-key non-streaming requests that are under way.
UnderWay(k) == {a \in AllReqs : req[a].pc \notin {"idle", "done"} /\ ~req[a].stream /\ req[a].key = k}

\* A request arrives on the endpoint of format fmt, with the X-Throttle-Force-Model
\* header value header ("": no header): handleApiRequest runs up to its first await
\* (or to its end).  Requests are numbered in arrival order and keys in order of
\* first use; the classification is a function of the messages, hence of the key.
ArriveAs(r, k, st, sid, cls, ov, header, fmt) ==
  /\ req[r].pc = "idle"
  /\ \A a \in AllReqs : a < r => req[a].pc # "idle"
  /\ \A j \in Keys : j < k => \E a \in AllReqs : req[a].pc # "idle" /\ req[a].key = j
  /\ \A a \in AllReqs : (req[a].pc # "idle" /\ req[a].key = k) => req[a].cls = cls
  /\ ~RunnableWaiter
  /\ LET rq == [req[r] EXCEPT !.key = k, !.stream = st, !.session = sid, !.cls = cls,
                              !.override = ov, !.forceHeader = header, !.clientFormat = fmt,
                              !.overlap = IF st THEN {} ELSE UnderWay(k)]
     IN IF UsesDedup(st)
        THEN LET g == DedupGetCompleted(dedup, k, now)
                 mi == DedupMarkInflight(g.dc, k, r)
             IN IF g.res # Undefined
                THEN /\ req' = [req EXCEPT ![r] =
                                  [rq EXCEPT !.pc = "done", !.path = "cacheHit",
                                             !.reply = Reply(g.res.status, g.res.body)]]
                     /\ dedup' = g.dc
                     /\ UNCHANGED <<sessions, cooldowns>>
                ELSE IF mi.isWaiting
                     THEN /\ req' = [req EXCEPT ![r] =
                                       [rq EXCEPT !.pc = "waiting", !.path = "waiter",
                                                  !.awaiting = mi.promise]]
                          /\ dedup' = mi.dc
                          /\ UNCHANGED <<sessions, cooldowns>>
                     ELSE FreshStart(r, [rq EXCEPT !.path = "fresh"], mi.dc)
        ELSE StreamStart(r, rq)
  /\ UNCHANGED <<now, history, keyVars, streamVars, limiterVars>>

\* A request arrives on POST /v1/messages with no force-model header.
Arrive(r, k, st, sid, cls, ov) == ArriveAs(r, k, st, sid, cls, ov, "", "anthropic")

\* `await inflight.promise` returns or throws: replay the result, or fall through to
\* the try block.
WaiterResume(r) ==
  /\ req[r].pc = "waiting"
  /\ dedup.promises[req[r].awaiting].state # "pending"
  /\ LET p == dedup.promises[req[r].awaiting]
     IN IF p.state = "resolved"
        THEN /\ req' = [req EXCEPT ![r].pc = "done",
                                   ![r].reply = Reply(p.value.status, p.value.body)]
             /\ UNCHANGED <<dedup, sessions, cooldowns>>
        ELSE FreshStart(r, [req[r] EXCEPT !.path = "retry"], dedup)
  /\ UNCHANGED <<now, history, keyVars, streamVars, limiterVars>>

\* dispatch() returns: log, cache the response (resolving waiters), reply.
UpstreamOk(r) ==
  /\ req[r].pc = "dispatching"
  /\ ~RunnableWaiter
  /\ req' = [req EXCEPT ![r].pc = "done", ![r].logged = @ + 1,
                        ![r].reply = Reply(200, ResponseBody(r))]
  /\ dedup' = DedupComplete(dedup, req[r].key, CachedResponse(200, ResponseBody(r), now), now)
  /\ UNCHANGED <<now, sessions, cooldowns, history, keyVars, streamVars, limiterVars>>

\* History: a surfaced 429 is a markRateLimited(m) executed at time t.
NoteMark(status, m, t) ==
  markedUntil' = IF status = 429 THEN [markedUntil EXCEPT ![m] = t + CooldownMs]
                 ELSE markedUntil

\* Mutant of handleRateLimit: any surfaced error marks the model.
HandleRateLimitAnyError(cds, status, m, t) == MarkRateLimited(cds, m, t)

\* handleRateLimit: a surfaced 429 marks the model rate-limited.
HandleRateLimit(cds, status, m, t) == IF status = 429 THEN MarkRateLimited(cds, m, t) ELSE cds

\* dispatch() throws: the catch removes the in-flight entry, marks the session failed
\* and rethrows.
UpstreamFail(r, status) ==
  /\ req[r].pc = "dispatching"
  /\ ~RunnableWaiter
  /\ req' = [req EXCEPT ![r].pc = "done", ![r].thrown = TRUE, ![r].error = status,
                        ![r].reply = ErrorReply(UpstreamErrorStatus(status))]
  /\ cooldowns' = HandleRateLimit(cooldowns, status, req[r].model, now)
  /\ NoteMark(status, req[r].model, now)
  /\ dedup' = DedupRemoveInflight(dedup, req[r].key)
  /\ sessions' = IF req[r].session # 0 THEN SessionMarkFailed(sessions, req[r].session, now)
                 ELSE sessions
  /\ UNCHANGED <<now, history, keyVars, streamVars>>

\* streamDispatch() returns a response with a body: the SSE headers are sent.
StreamOpen(r) ==
  /\ req[r].pc = "streamDispatching"
  /\ ~RunnableWaiter
  /\ req' = [req EXCEPT ![r].pc = "streaming"]
  /\ UNCHANGED <<now, sessions, cooldowns, dedup, history, keyVars, streamVars, limiterVars>>

\* streamDispatch() returns no response body: 502, no log entry.
StreamNoBody(r) ==
  /\ req[r].pc = "streamDispatching"
  /\ ~RunnableWaiter
  /\ req' = [req EXCEPT ![r].pc = "done", ![r].reply = ErrorReply(502)]
  /\ UNCHANGED <<now, sessions, cooldowns, dedup, history, keyVars, streamVars, limiterVars>>

\* streamDispatch() throws: the session is marked failed and the error rethrown.
StreamDispatchFail(r, status) ==
  /\ req[r].pc = "streamDispatching"
  /\ ~RunnableWaiter
  /\ req' = [req EXCEPT ![r].pc = "done", ![r].thrown = TRUE, ![r].error = status,
                        ![r].reply = ErrorReply(UpstreamErrorStatus(status))]
  /\ cooldowns' = HandleRateLimit(cooldowns, status, req[r].model, now)
  /\ NoteMark(status, req[r].model, now)
  /\ sessions' = IF req[r].session # 0 THEN SessionMarkFailed(sessions, req[r].session, now)
                 ELSE sessions
  /\ UNCHANGED <<now, dedup, history, keyVars, streamVars>>

\* Reading the upstream stream fails: the catch logs the error, the finally block
\* ends the response and logs; nothing is rethrown.
StreamReadError(r) ==
  /\ req[r].pc = "streaming"
  /\ ~RunnableWaiter
  /\ req' = [req EXCEPT ![r].pc = "done", ![r].logged = @ + 1, ![r].readError = TRUE,
                        ![r].reply = Reply(200, [stream |-> r])]
  /\ UNCHANGED <<now, sessions, cooldowns, dedup, history, keyVars, streamVars, limiterVars>>

\* The upstream stream ends: the finally block ends the response and logs.
StreamEnd(r) ==
  /\ req[r].pc = "streaming"
  /\ ~RunnableWaiter
  /\ req' = [req EXCEPT ![r].pc = "done", ![r].logged = @ + 1,
                        ![r].reply = Reply(200, [stream |-> r])]
  /\ UNCHANGED <<now, sessions, cooldowns, dedup, history, keyVars, streamVars, limiterVars>>

\* The handler of a finished request has returned: its locals and the settled
\* promise nobody awaits are gone, and the same client may send the next request.
Forget(r) ==
  /\ req[r].pc = "done"
  /\ ~RunnableWaiter
  /\ \A w \in AllReqs : req[w].pc = "waiting" => req[w].awaiting # r
  /\ req' = [req EXCEPT ![r] = IdleReq]
  /\ dedup' = [dedup EXCEPT !.promises[r] =
                 IF r \in {dedup.inflight[k] : k \in DOMAIN dedup.inflight} THEN @ ELSE NoPromise]
  /\ UNCHANGED <<now, sessions, cooldowns, history, keyVars, streamVars, limiterVars>>

\* The steps of a non-streaming request after it has arrived; statuses are the
\* upstream error statuses a dispatch can surface.
Progress(r, statuses) ==
  \/ WaiterResume(r)
  \/ UpstreamOk(r)
  \/ \E status \in statuses : UpstreamFail(r, status)

\* The steps of a streaming request after it has arrived.
StreamProgress(r, statuses) ==
  \/ StreamOpen(r)
  \/ StreamNoBody(r)
  \/ \E status \in statuses : StreamDispatchFail(r, status)
  \/ StreamEnd(r)


\* ------------------------------------------------- history of set() calls
\* ------------------------------------------------------ Anthropic dispatch
Calls == 1..NumCalls

\* A dispatch that has not been started.
IdleCall ==
  [pc |-> "idle", stream |-> FALSE, primary |-> NoKey, fallback |-> NoKey,
   attempts |-> 0, ok |-> FALSE, keyType |-> NoKey, failover |-> FALSE, error |-> 0]

\* The upstream statuses a key attempt may fail with.
KeyStatuses == {401, 429, 500}

\* `err.status === 429 || err.status === 401`.
IsFailoverStatus(status) == status = 429 \/ status = 401

\* Mutant of the failover test: only a 429 fails over.
IsFailoverStatusOnly429(status) == status = 429

\* History: an upstream 429 on key type k at time t.
Note429(status, k, t) ==
  last429At' = IF status = 429 THEN [last429At EXCEPT ![k] = t] ELSE last429At

\* dispatchAnthropic / dispatchAnthropicStream up to the first await: select the
\* keys, throw 401 when there is none, else call upstream with the primary key.
DispatchAnthropic(d, st) ==
  /\ calls[d].pc = "idle"
  /\ LET sel == SelectKeys(anthropic, dualKey, now)
     IN /\ dualKey' = sel.dk
        /\ calls' = [calls EXCEPT ![d] =
             IF sel.primary = NoKey
             THEN [IdleCall EXCEPT !.pc = "done", !.stream = st, !.error = 401]
             ELSE [IdleCall EXCEPT !.pc = "primary", !.stream = st, !.attempts = 1,
                                   !.primary = sel.primary, !.fallback = sel.fallback]]
  /\ UNCHANGED <<now, sessions, history, dedup, cooldowns, req, anthropic, last429At, sse, markedUntil>>

\* The primary attempt returns a result.
PrimaryOk(d) ==
  /\ calls[d].pc = "primary"
  /\ calls' = [calls EXCEPT ![d].pc = "done", ![d].ok = TRUE,
                            ![d].keyType = calls[d].primary, ![d].failover = FALSE]
  /\ UNCHANGED <<now, sessions, history, dedup, cooldowns, req, anthropic, dualKey, last429At, sse, markedUntil>>

\* The primary attempt throws: fail over to the fallback key, or rethrow.
PrimaryFail(d, status) ==
  /\ calls[d].pc = "primary"
  /\ Note429(status, calls[d].primary, now)
  /\ IF IsFailoverStatus(status) /\ calls[d].fallback # NoKey
     THEN /\ dualKey' = MarkCooldown(dualKey, calls[d].primary, now)
          /\ calls' = [calls EXCEPT ![d].pc = "fallback", ![d].attempts = @ + 1]
     ELSE /\ calls' = [calls EXCEPT ![d].pc = "done", ![d].error = status]
          /\ UNCHANGED dualKey
  /\ UNCHANGED <<now, sessions, history, dedup, cooldowns, req, anthropic, sse, markedUntil>>

\* The retry with the fallback key returns a result.
FallbackOk(d) ==
  /\ calls[d].pc = "fallback"
  /\ calls' = [calls EXCEPT ![d].pc = "done", ![d].ok = TRUE,
                            ![d].keyType = calls[d].fallback, ![d].failover = TRUE]
  /\ UNCHANGED <<now, sessions, history, dedup, cooldowns, req, anthropic, dualKey, last429At, sse, markedUntil>>

\* The retry with the fallback key throws: the error propagates.
FallbackFail(d, status) ==
  /\ calls[d].pc = "fallback"
  /\ Note429(status, calls[d].fallback, now)
  /\ calls' = [calls EXCEPT ![d].pc = "done", ![d].error = status]
  /\ UNCHANGED <<now, sessions, history, dedup, cooldowns, req, anthropic, dualKey, sse, markedUntil>>

\* The set_anthropic_priority tool: the preference is switched, then getStatus()
\* reads both cooldowns.
SetAnthropicPriority(preferSetupToken) ==
  /\ anthropic' = [anthropic EXCEPT !.preferSetup = preferSetupToken]
  /\ dualKey' = IsCoolingDown(IsCoolingDown(dualKey, "setup-token", now).dk, "enterprise", now).dk
  /\ UNCHANGED <<now, sessions, history, dedup, cooldowns, req, calls, last429At, sse, markedUntil>>

\* The dispatch has returned to its caller; the next one may start.
Return(d) ==
  /\ calls[d].pc = "done"
  /\ calls' = [calls EXCEPT ![d] = IdleCall]
  /\ UNCHANGED <<now, sessions, history, dedup, cooldowns, req, anthropic, dualKey, last429At, sse, markedUntil>>

Max(a, b) == IF a >= b THEN a ELSE b

NoteSet(id, tier) ==
  /\ setHigh' = [setHigh EXCEPT ![id] = Max(@, TIER_RANK[tier])]
  /\ runHigh' = [runHigh EXCEPT ![id] =
                   IF lastSetAt[id] = 0 \/ now - lastSetAt[id] > TimeoutMs
                   THEN TIER_RANK[tier] ELSE Max(@, TIER_RANK[tier])]
  /\ lastSetAt' = [lastSetAt EXCEPT ![id] = now]

NoCall == [op |-> "none", id |-> 0, res |-> Undefined]

\* --------------------------------------------- actions of the store's API
CallGet(id) ==
  LET g == SessionGet(sessions, id, now)
  IN /\ sessions' = g.map
     /\ lastCall' = [op |-> "get", id |-> id, res |-> g.res]
     /\ UNCHANGED <<now, setHigh, runHigh, lastSetAt, failMark, handlerVars>>

CallSet(id, m, tier) ==
  LET s == SessionSet(sessions, id, m, tier, now)
  IN /\ sessions' = s.map
     /\ lastCall' = [op |-> "set", id |-> id, res |-> s.res, modelId |-> m, tier |-> tier]
     /\ NoteSet(id, tier)
     /\ UNCHANGED <<now, failMark, handlerVars>>

CallMarkFailed(id) ==
  /\ sessions' = SessionMarkFailed(sessions, id, now)
  /\ lastCall' = [op |-> "markFailed", id |-> id, res |-> Undefined]
  /\ UNCHANGED <<now, setHigh, runHigh, lastSetAt, failMark, handlerVars>>

\* markFailed(id), with the history of failure marks kept.
NotedMarkFailed(id) ==
  /\ sessions' = SessionMarkFailed(sessions, id, now)
  /\ lastCall' = [op |-> "markFailed", id |-> id, res |-> Undefined]
  /\ failMark' = IF id \in DOMAIN sessions THEN [failMark EXCEPT ![id] = now] ELSE failMark
  /\ UNCHANGED <<now, setHigh, runHigh, lastSetAt, handlerVars>>

CallHasRecentFailure(id) ==
  LET h == SessionHasRecentFailure(sessions, id, now)
  IN /\ sessions' = h.map
     /\ lastCall' = [op |-> "hasRecentFailure", id |-> id, res |-> h.res]
     /\ UNCHANGED <<now, setHigh, runHigh, lastSetAt, failMark, handlerVars>>

\* hasRecentFailure(id), with the history of failure marks kept.
NotedHasRecentFailure(id) ==
  LET h == SessionHasRecentFailure(sessions, id, now)
  IN /\ sessions' = h.map
     /\ lastCall' = [op |-> "hasRecentFailure", id |-> id, res |-> h.res]
     /\ failMark' = IF h.res THEN [failMark EXCEPT ![id] = 0] ELSE failMark
     /\ UNCHANGED <<now, setHigh, runHigh, lastSetAt, handlerVars>>

CallCleanup ==
  /\ sessions' = SessionCleanup(sessions, now)
  /\ lastCall' = [op |-> "cleanup", id |-> 0, res |-> Undefined]
  /\ UNCHANGED <<now, setHigh, runHigh, lastSetAt, failMark, handlerVars>>

\* ------------------------------------------------------ streaming response
\* handleStreamingResponse for an Anthropic-family upstream and a Messages-style
\* client.  Text is a sequence of atoms: the field prefixes, event names, data
\* payloads and the newline; a chunk boundary can fall between any two atoms.
NL == "\n"
EventPrefix == "event: "
DataPrefix == "data: "
EventNames == {"message_start", "message_delta"}
DataValues == {"usage_in_1", "usage_out_2"}

\* One upstream event on the wire.
SseEvent(e, d) == <<EventPrefix, e, NL, DataPrefix, d, NL, NL>>

\* The upstream bodies of exactly n typed events.
RECURSIVE BodiesOf(_)
BodiesOf(n) ==
  IF n = 0 THEN {<<>>}
  ELSE {b \o SseEvent(e, d) : b \in BodiesOf(n - 1), e \in EventNames, d \in DataValues}

UpstreamBodies == UNION {BodiesOf(n) : n \in 0..MaxEvents}

\* The token counts an event reports; 0 - 1 stands for undefined.
ExtractAnthropicTokens(event, data) ==
  [inputTokens  |-> IF data = <<"usage_in_1">> THEN 1 ELSE 0 - 1,
   outputTokens |-> IF data = <<"usage_out_2">> THEN 2 ELSE 0 - 1]

Heartbeat == [kind |-> "heartbeat"]
Emitted(event, data) == [kind |-> "event", event |-> event, data |-> data]

\* No streaming response is open.
IdleStream ==
  [pc |-> "idle", upstream |-> <<>>, pos |-> 0, buffer |-> <<>>,
   currentEvent |-> <<>>, currentData |-> <<>>,
   heartbeatInterval |-> FALSE, heartbeatCleared |-> FALSE,
   accumulator |-> [inputTokens |-> 0, outputTokens |-> 0],
   written |-> <<>>, ended |-> FALSE, log |-> <<>>, clientGone |-> FALSE]

\* processStreamChunk: the accumulator takes the counts the event reports, and the
\* event is written in the client's format (event line only for a named event).
ProcessStreamChunk(st, event, data) ==
  LET tokens == ExtractAnthropicTokens(event, data)
  IN [st EXCEPT
        !.accumulator =
          [inputTokens  |-> IF tokens.inputTokens # 0 - 1 THEN tokens.inputTokens
                            ELSE st.accumulator.inputTokens,
           outputTokens |-> IF tokens.outputTokens # 0 - 1 THEN tokens.outputTokens
                            ELSE st.accumulator.outputTokens],
        !.written = Append(@, Emitted(event, data))]

\* buffer.split('\n'): the lines of a text, the last one being what follows the last
\* newline.
RECURSIVE SplitLines(_, _, _)
SplitLines(text, line, lines) ==
  IF text = <<>> THEN Append(lines, line)
  ELSE IF Head(text) = NL THEN SplitLines(Tail(text), <<>>, Append(lines, line))
  ELSE SplitLines(Tail(text), Append(line, Head(text)), lines)

\* The body of `for (const line of lines)`.
HandleLine(st, line) ==
  IF line # <<>> /\ Head(line) = EventPrefix
  THEN [st EXCEPT !.currentEvent = Tail(line)]
  ELSE IF line # <<>> /\ Head(line) = DataPrefix
  THEN [st EXCEPT !.currentData = Tail(line)]
  ELSE IF line = <<>>
  THEN [(IF st.currentData # <<>>
         THEN ProcessStreamChunk(st, st.currentEvent, st.currentData) ELSE st)
          EXCEPT !.currentEvent = <<>>, !.currentData = <<>>]
  ELSE st

RECURSIVE HandleLines(_, _)
HandleLines(st, lines) ==
  IF lines = <<>> THEN st ELSE HandleLines(HandleLine(st, Head(lines)), Tail(lines))

\* The finally block: clear the interval, flush what is left in the buffer when it
\* starts with "data: " (a lone "data: " is trimmed to "data:"), end the response,
\* append the log entry.
Finalize(st) ==
  LET flushed == IF Len(st.buffer) >= 2 /\ Head(st.buffer) = DataPrefix
                 THEN ProcessStreamChunk(st, <<>>, Tail(st.buffer)) ELSE st
  IN [flushed EXCEPT !.pc = "done", !.heartbeatInterval = FALSE, !.ended = TRUE,
                     !.log = Append(@, flushed.accumulator)]

StreamUnchanged ==
  UNCHANGED <<now, sessions, history, dedup, cooldowns, req, keyVars, limiterVars>>

\* streamDispatch() has returned a body: the head is written and the heartbeat
\* interval set.
OpenStream(body) ==
  /\ sse.pc = "idle"
  /\ sse' = [IdleStream EXCEPT !.pc = "reading", !.upstream = body,
                               !.heartbeatInterval = TRUE]
  /\ StreamUnchanged

\* The heartbeat interval fires.
HeartbeatFires ==
  /\ sse.heartbeatInterval
  /\ Cardinality({i \in DOMAIN sse.written : sse.written[i] = Heartbeat}) < MaxBeats
  /\ sse' = IF sse.ended THEN sse ELSE [sse EXCEPT !.written = Append(@, Heartbeat)]
  /\ StreamUnchanged

\* Mutant of the read step: the parser state is not carried from one read to the
\* next.
ReadChunkFreshParser(n) ==
  /\ sse.pc = "reading"
  /\ n >= 1 /\ sse.pos + n <= Len(sse.upstream)
  /\ LET value == SubSeq(sse.upstream, sse.pos + 1, sse.pos + n)
         lines == SplitLines(sse.buffer \o value, <<>>, <<>>)
         st == [sse EXCEPT !.pos = @ + n,
                           !.heartbeatInterval = IF sse.heartbeatCleared THEN @ ELSE FALSE,
                           !.heartbeatCleared = TRUE,
                           !.currentEvent = <<>>,
                           !.currentData = <<>>,
                           !.buffer = lines[Len(lines)]]
     IN sse' = HandleLines(st, SubSeq(lines, 1, Len(lines) - 1))
  /\ StreamUnchanged

\* Mutant of the read step: the first chunk does not stop the heartbeat timer.
ReadChunkKeepInterval(n) ==
  /\ sse.pc = "reading"
  /\ n >= 1 /\ sse.pos + n <= Len(sse.upstream)
  /\ LET value == SubSeq(sse.upstream, sse.pos + 1, sse.pos + n)
         lines == SplitLines(sse.buffer \o value, <<>>, <<>>)
         st == [sse EXCEPT !.pos = @ + n,
                           !.buffer = lines[Len(lines)]]
     IN sse' = HandleLines(st, SubSeq(lines, 1, Len(lines) - 1))
  /\ StreamUnchanged

\* reader.read() returns the next n atoms of the body.
ReadChunk(n) ==
  /\ sse.pc = "reading"
  /\ n >= 1 /\ sse.pos + n <= Len(sse.upstream)
  /\ LET value == SubSeq(sse.upstream, sse.pos + 1, sse.pos + n)
         lines == SplitLines(sse.buffer \o value, <<>>, <<>>)
         st == [sse EXCEPT !.pos = @ + n,
                           !.heartbeatInterval = IF sse.heartbeatCleared THEN @ ELSE FALSE,
                           !.heartbeatCleared = TRUE,
                           !.buffer = lines[Len(lines)]]
     IN sse' = HandleLines(st, SubSeq(lines, 1, Len(lines) - 1))
  /\ StreamUnchanged

\* reader.read() returns done: the body has been read to its end.
ReadDone ==
  /\ sse.pc = "reading"
  /\ sse.pos = Len(sse.upstream)
  /\ sse' = Finalize(sse)
  /\ StreamUnchanged

\* Mutant of the read error: the error leaves the handler, no finally block.
ReadErrorNoFinally ==
  /\ sse.pc = "reading"
  /\ sse' = [sse EXCEPT !.pc = "failed"]
  /\ StreamUnchanged

\* reader.read() throws (the upstream connection fails, anywhere in the body): the
\* catch logs the error, the finally block runs.
ReadError ==
  /\ sse.pc = "reading"
  /\ sse' = Finalize(sse)
  /\ StreamUnchanged

\* The client goes away; the handler does not listen for it.
ClientDisconnect ==
  /\ sse.pc = "reading"
  /\ ~sse.clientGone
  /\ sse' = [sse EXCEPT !.clientGone = TRUE]
  /\ StreamUnchanged

\* ------------------------------------------------ calls of the RateLimiter
\* The cooldown periods passed to markRateLimited: a short one and the default.
CooldownChoices == {1, CooldownMs}

\* markRateLimited(m, cooldownMs), called directly.
CallMarkRateLimited(m, cooldownMs) ==
  /\ cooldowns' = MarkRateLimitedFor(cooldowns, m, now, cooldownMs)
  /\ markedUntil' = [markedUntil EXCEPT ![m] = now + cooldownMs]
  /\ lastCall' = [op |-> "markRateLimited", id |-> 0,
                  res |-> [model |-> m, expiresAt |-> now + cooldownMs,
                           replaced |-> IF m \in DOMAIN cooldowns THEN cooldowns[m] ELSE 0]]
  /\ UNCHANGED <<now, sessions, setHigh, runHigh, lastSetAt, failMark, dedup, req, keyVars, streamVars>>

\* isRateLimited(m), called directly: the answer, and the expired entry pruned.
CallIsRateLimited(m) ==
  /\ cooldowns' = PruneRead(cooldowns, {m}, now)
  /\ lastCall' = [op |-> "isRateLimited", id |-> 0,
                  res |-> [model |-> m, limited |-> IsRateLimited(cooldowns, m, now)]]
  /\ UNCHANGED <<now, sessions, setHigh, runHigh, lastSetAt, failMark, dedup, req, keyVars, streamVars,
                 limiterVars>>

\* clear(m), called directly.
CallClear(m) ==
  /\ cooldowns' = LimiterClear(cooldowns, m)
  /\ markedUntil' = [markedUntil EXCEPT ![m] = 0]
  /\ lastCall' = [op |-> "clear", id |-> 0, res |-> [model |-> m]]
  /\ UNCHANGED <<now, sessions, setHigh, runHigh, lastSetAt, failMark, dedup, req, keyVars, streamVars>>

\* The clock advances (between tasks of the event loop). The history of upstream
\* 429s keeps only those whose cooldown window is still open, the history of failure
\* marks only those within the failure window.
Tick ==
  /\ now < MaxTime
  /\ ~RunnableWaiter
  /\ now' = now + 1
  /\ last429At' = [k \in KeyTypes |->
                     IF now' - last429At[k] < KeyCooldownMs THEN last429At[k] ELSE 0]
  /\ markedUntil' = [m \in Models |-> IF now' < markedUntil[m] THEN markedUntil[m] ELSE 0]
  /\ failMark' = [id \in SessionIds |->
                    IF now' - failMark[id] <= WithinMs THEN failMark[id] ELSE 0]
  /\ UNCHANGED <<sessions, lastCall, setHigh, runHigh, lastSetAt, dedup, cooldowns, req,
                 anthropic, dualKey, calls, sse>>

\* The stores after construction: empty, no request received, no dispatch made.
InitStores ==
  /\ now = 1
  /\ sessions = EmptyMap
  /\ lastCall = NoCall
  /\ setHigh = [id \in SessionIds |-> 0 - 1]
  /\ runHigh = [id \in SessionIds |-> 0 - 1]
  /\ lastSetAt = [id \in SessionIds |-> 0]
  /\ failMark = [id \in SessionIds |-> 0]
  /\ dedup = [completed |-> EmptyMap, inflight |-> EmptyMap,
              promises |-> [r \in AllReqs |-> NoPromise]]
  /\ cooldowns = EmptyMap
  /\ req = [r \in AllReqs |-> IdleReq]
  /\ dualKey = NewDualKey
  /\ calls = [d \in Calls |-> IdleCall]
  /\ last429At = [k \in KeyTypes |-> 0]
  /\ sse = IdleStream
  /\ markedUntil = [m \in Models |-> 0]

\* The state after construction, both Anthropic keys configured, setup-token preferred.
Init ==
  /\ InitStores
  /\ anthropic = [hasSetup |-> TRUE, hasEnterprise |-> TRUE, preferSetup |-> TRUE]

\* The state after construction under any Anthropic key configuration.
InitKeys ==
  /\ InitStores
  /\ anthropic \in AnthropicConfigs

NextSession ==
  \/ \E id \in SessionIds : CallGet(id)
  \/ \E id \in SessionIds, m \in PinModels, tier \in Tiers : CallSet(id, m, tier)
  \/ \E id \in SessionIds : CallMarkFailed(id)
  \/ \E id \in SessionIds : CallHasRecentFailure(id)
  \/ CallCleanup
  \/ Tick

SpecSession == Init /\ [][NextSession]_vars

\* The calls that touch the failure marker, at any times: set, markFailed and
\* hasRecentFailure (set reads the pin through get, which expires it lazily).
NextFailure ==
  \/ \E id \in SessionIds, m \in PinModels, tier \in Tiers : CallSet(id, m, tier)
  \/ \E id \in SessionIds : NotedMarkFailed(id)
  \/ \E id \in SessionIds : NotedHasRecentFailure(id)
  \/ Tick

SpecFailure == Init /\ [][NextFailure]_vars

\* The rate limiter called directly, in any order, as the clock advances.
NextLimiter ==
  \/ \E m \in Models, cooldownMs \in CooldownChoices : CallMarkRateLimited(m, cooldownMs)
  \/ \E m \in Models : CallIsRateLimited(m)
  \/ \E m \in Models : CallClear(m)
  \/ Tick

SpecLimiter == Init /\ [][NextLimiter]_vars

\* The deduplication specification: NumReqs requests with any key, streaming or not,
\* no session header, one classification, no override; upstream errors are 500s.
NextDedup ==
  \/ \E r \in Reqs, k \in Keys, st \in BOOLEAN :
       Arrive(r, k, st, 0, Classification("complex", FALSE), NoOverride)
  \/ \E r \in Reqs : Progress(r, {500})
  \/ \E r \in Reqs : StreamProgress(r, {500})
  \/ Tick

SpecDedup == Init /\ [][NextDedup]_vars

\* Non-streaming requests only (the requests that can wait on one another).
NextWait ==
  \/ \E r \in Reqs, k \in Keys :
       Arrive(r, k, FALSE, 0, Classification("complex", FALSE), NoOverride)
  \/ \E r \in Reqs : Progress(r, {500})
  \/ Tick

\* Scheduling: the continuation of a settled `await` runs (event loop), and every
\* upstream call returns or throws.
SpecWait ==
  /\ Init /\ [][NextWait]_vars
  /\ \A r \in Reqs : WF_vars(Progress(r, {500}))

\* The specification of retried waiters: one more request, all non-streaming with
\* one key.
NextRetry ==
  \/ \E r \in AllReqs :
       Arrive(r, 1, FALSE, 0, Classification("complex", FALSE), NoOverride)
  \/ \E r \in AllReqs : Progress(r, {500})
  \/ Tick

SpecRetry == Init /\ [][NextRetry]_vars

\* The requests of the routing specification.
RouteReqs == 1..(NumReqs - 1)

\* The overrides detectOverrides can return for a request.
Overrides ==
  {NoOverride,
   [kind |-> "tool_calling", forcedModelId |-> ""],
   [kind |-> "force_model", forcedModelId |-> "opus"],
   [kind |-> "heartbeat", forcedModelId |-> "flash"]}

\* The routing specification: one request fewer, with or without a session header,
\* any classification and override; upstream errors are 429s and 500s.
NextRoute ==
  \/ \E r \in RouteReqs, k \in Keys, st \in BOOLEAN, sid \in {0} \cup SessionIds,
        tier \in Tiers, lowConf \in BOOLEAN, ov \in Overrides :
       Arrive(r, k, st, sid, Classification(tier, lowConf), ov)
  \/ \E r \in RouteReqs : Progress(r, {429, 500})
  \/ \E r \in RouteReqs : StreamProgress(r, {429, 500})
  \/ Tick

SpecRoute == Init /\ [][NextRoute]_vars

\* Anthropic dispatches, streaming or not, under any key configuration.
NextKeys ==
  \/ \E d \in Calls, st \in BOOLEAN : DispatchAnthropic(d, st)
  \/ \E d \in Calls : PrimaryOk(d)
  \/ \E d \in Calls, status \in KeyStatuses : PrimaryFail(d, status)
  \/ \E d \in Calls : FallbackOk(d)
  \/ \E d \in Calls, status \in KeyStatuses : FallbackFail(d, status)
  \/ \E d \in Calls : Return(d)
  \/ \E b \in BOOLEAN : SetAnthropicPriority(b)
  \/ Tick

SpecKeys == InitKeys /\ [][NextKeys]_vars


\* One streamed response: any body of up to MaxEvents events, cut into chunks
\* anywhere, read to its end or failing anywhere.
ReadStep ==
  \/ \E n \in 1..Len(sse.upstream) : ReadChunk(n)
  \/ ReadDone
  \/ ReadError

NextStream ==
  \/ \E body \in UpstreamBodies : OpenStream(body)
  \/ HeartbeatFires
  \/ ReadStep
  \/ ClientDisconnect

\* Scheduling: every reader.read() settles (a chunk, the end, or an error).
SpecStream == Init /\ [][NextStream]_vars /\ WF_vars(ReadStep)

\* Non-streaming requests of one client, one after another and within one clock
\* tick, with sessions and overrides.
SessionChoice == {0} \cup SessionIds

\* The one client of the routing scenarios.
SoloReqs == {1}

NextRouting ==
  \/ \E r \in SoloReqs, k \in Keys, sid \in SessionChoice,
        tier \in Tiers, lowConf \in BOOLEAN, ov \in Overrides :
       Arrive(r, k, FALSE, sid, Classification(tier, lowConf), ov)
  \/ \E r \in SoloReqs : UpstreamOk(r)
  \/ \E r \in SoloReqs, status \in {429, 500} : UpstreamFail(r, status)
  \/ \E r \in SoloReqs : Forget(r)

SpecRouting == Init /\ [][NextRouting]_vars

\* The values of the X-Throttle-Force-Model header: absent, an alias, not an alias.
ForceHeaders == {"", "opus", "gpt"}

\* The requests of one client on POST /v1/messages, one after another and within
\* one clock tick: streaming or not, with or without a session header and a force
\* header, any classification; upstream errors are 429s and 500s.
\* Once a request is forgotten a later body with the same dedup key may differ in
\* its classification and content class: the cache lookup does not depend on them.
NextHttp ==
  \/ \E r \in SoloReqs, k \in Keys, st \in BOOLEAN, sid \in SessionChoice, tier \in Tiers,
        lowConf \in BOOLEAN, content \in Contents, header \in ForceHeaders :
       ArriveAs(r, k, st, sid, Classification(tier, lowConf),
                DetectOverrides(content, GetForceModel(header)), header, "anthropic")
  \/ \E r \in SoloReqs : UpstreamOk(r)
  \/ \E r \in SoloReqs, status \in {429, 500} : UpstreamFail(r, status)
  \/ \E r \in SoloReqs : StreamOpen(r)
  \/ \E r \in SoloReqs : StreamNoBody(r)
  \/ \E r \in SoloReqs, status \in {429, 500} : StreamDispatchFail(r, status)
  \/ \E r \in SoloReqs : StreamReadError(r)
  \/ \E r \in SoloReqs : StreamEnd(r)
  \/ \E r \in SoloReqs : Forget(r)

SpecHttp == Init /\ [][NextHttp]_vars

\* The endpoints' response formats: POST /v1/messages and POST /v1/chat/completions.
ClientFormats == {"anthropic", "openai"}

\* Non-streaming requests on both endpoints, possibly with equal bodies, the
\* upstream's answers, and the passing of time.
NextFormat ==
  \/ \E r \in Reqs, k \in Keys, fmt \in ClientFormats :
       ArriveAs(r, k, FALSE, 0, Classification("complex", FALSE), NoOverride, "", fmt)
  \/ \E r \in Reqs : Progress(r, {500})
  \/ Tick

SpecFormat == Init /\ [][NextFormat]_vars

\* The last user messages: ordinary, a heartbeat phrase, the inline commands.
Prompts == Contents \cup {"/opus", "/sonnet", "/flash"}

\* The forceModel arguments: none, the aliases, a value that is no alias.
ForceValues == ForceHeaders \cup DOMAIN FORCE_MODEL_MAP

\* The models a log entry can name: those of the hierarchy and one outside it.
LogModels == Models \cup {"deepseek"}

\* The routing logs: some of the request ids, each with its selected model.
Logs == UNION {[ids -> LogModels] : ids \in SUBSET Reqs}

\* detectOverrides called with a prompt, a forceModel value, a parent request
\* id (0: none), a routing log and with or without tool definitions.
CallDetectOverrides(content, forceModel, parentRequestId, log, hasTools) ==
  /\ lastCall' = [op |-> "detectOverrides", id |-> parentRequestId,
                  res |-> DetectOverridesTools(content, forceModel, parentRequestId, log, hasTools),
                  content |-> content, forceModel |-> forceModel, log |-> log,
                  hasTools |-> hasTools]
  /\ UNCHANGED <<now, sessions, setHigh, runHigh, lastSetAt, failMark, handlerVars>>

\* One call of the detector, with any arguments.
NextOverrides ==
  /\ lastCall = NoCall
  /\ \E content \in Prompts, forceModel \in ForceValues, parentRequestId \in {0} \cup Reqs,
        log \in Logs, hasTools \in BOOLEAN :
       CallDetectOverrides(content, forceModel, parentRequestId, log, hasTools)

SpecOverrides == Init /\ [][NextOverrides]_vars

\* ======================================================== session claims
\* The pin a get() at the present time would report.
LivePin(id) == SessionGet(sessions, id, now).res

\* C1 (as stated): after every set(id, ..), at any times, the tier set returns equals
\* the highest tier ever passed to set for that session, so it never decreases.
C1_PinIsHighestEver ==
  lastCall.op = "set" => TIER_RANK[lastCall.res.tier] = setHigh[lastCall.id]

\* C1 (amended): in a run of set() calls on one session in which no call comes more
\* than the idle timeout after the previous one, the tier set returns, and the tier
\* get reports while the pin is live, equals the highest tier passed in that run (so
\* it never decreases within the run); a longer gap expires the pin and the next set
\* starts a new run.
C1_PinMonotoneWhileLive ==
  /\ lastCall.op = "set" => TIER_RANK[lastCall.res.tier] = runHigh[lastCall.id]
  /\ \A id \in SessionIds :
       (lastSetAt[id] # 0 /\ now - lastSetAt[id] <= TimeoutMs)
         => /\ LivePin(id) # Undefined
            /\ TIER_RANK[LivePin(id).tier] = runHigh[id]

\* C1 witness: a set with a lower tier returned the higher pin kept from before.
C1_Witness ==
  /\ lastCall.op = "set"
  /\ TIER_RANK[lastCall.tier] < TIER_RANK[lastCall.res.tier]
  /\ LivePin(lastCall.id) = lastCall.res

\* What set(id, m, tier) must do, stated from the pre-state.
SetAsClaimed(id, m, tier) ==
  LET live == id \in DOMAIN sessions /\ now - sessions[id].lastUsedAt <= TimeoutMs
      after == Pin(sessions'[id].modelId, sessions'[id].tier)
      expected == IF live /\ ~(TIER_RANK[tier] > TIER_RANK[sessions[id].tier])
                  THEN Pin(sessions[id].modelId, sessions[id].tier)
                  ELSE Pin(m, tier)
  IN /\ id \in DOMAIN sessions'
     /\ after = expected
     /\ lastCall'.res = after

\* C2: set(id, model, tier) replaces a live pin only when tier is strictly greater,
\* keeps model and tier otherwise, creates (model, tier) when no live pin exists, and
\* returns the pin in effect after the call.
C2_SetUpgradeOnly ==
  [][\A id \in SessionIds, m \in PinModels, tier \in Tiers :
       CallSet(id, m, tier) => SetAsClaimed(id, m, tier)]_vars

\* C2 witness: a set with an equal tier and another model kept the pinned model.
C2_Witness ==
  /\ lastCall.op = "set"
  /\ lastCall.tier = lastCall.res.tier
  /\ lastCall.modelId # lastCall.res.modelId
  /\ sessions[lastCall.id].modelId = lastCall.res.modelId

\* ========================================================== dedup claims
\* A request has sent its response.
Replied(r) == req[r].pc = "done"

\* Request r made an upstream dispatch.
Dispatched(r) == req[r].dispatches > 0

\* C3 (as stated): of two non-streaming requests with one key, the second arriving
\* before the first has completed, the two never both dispatch upstream (exactly one
\* does when the first is the producer) and both clients receive identical bodies.
C3_ExactlyOneDispatches ==
  \A a \in AllReqs, b \in AllReqs :
    (a \in req[b].overlap /\ Replied(a) /\ Replied(b))
      => /\ ~(Dispatched(a) /\ Dispatched(b))
         /\ req[a].path = "fresh" => (Dispatched(a) # Dispatched(b))
         /\ req[a].reply.body = req[b].reply.body

\* C4 (as stated): a waiter released successfully replies with exactly the response
\* the request that created its in-flight entry sent to its own client, and all
\* waiters of one entry reply alike.
C4_WaiterGetsProducerResponse ==
  /\ \A w \in AllReqs :
       (req[w].path = "waiter" /\ Replied(w) /\ Replied(req[w].awaiting))
         => req[w].reply = req[req[w].awaiting].reply
  /\ \A w \in AllReqs, x \in AllReqs :
       (req[w].path = "waiter" /\ req[x].path = "waiter" /\ Replied(w) /\ Replied(x)
          /\ req[w].awaiting = req[x].awaiting)
         => req[w].reply = req[x].reply

\* C5: a key has at most one in-flight entry (every pending promise is the one in
\* the in-flight map under its creator's key), and a key with a completed entry has
\* no in-flight entry.
C5_InflightExcludesCompleted ==
  /\ \A k \in DOMAIN dedup.completed : k \notin DOMAIN dedup.inflight
  /\ \A p \in AllReqs :
       dedup.promises[p].state = "pending"
         => /\ req[p].key \in DOMAIN dedup.inflight
            /\ dedup.inflight[req[p].key] = p

\* C5 witness: a retried waiter completed while a later producer of the same key
\* was still dispatching: the completed entry exists and no in-flight entry does.
C5_Witness ==
  \E r \in Reqs, p \in Reqs :
    /\ req[r].path = "retry" /\ Replied(r) /\ req[r].reply.status = 200
    /\ req[p].path = "fresh" /\ req[p].pc = "dispatching" /\ req[p].key = req[r].key
    /\ req[r].key \in DOMAIN dedup.completed

\* C6: no waiter waits forever: once the request that created an in-flight entry has
\* terminated, every request awaiting that entry leaves the await, and when that
\* request completed successfully every such waiter replies to its client.
C6_WaitersReleased ==
  /\ \A w \in Reqs :
       (req[w].pc = "waiting" /\ Replied(req[w].awaiting)) ~> (req[w].pc # "waiting")
  /\ \A w \in Reqs :
       (req[w].awaiting # 0 /\ Replied(req[w].awaiting)
          /\ req[req[w].awaiting].reply.status = 200) ~> Replied(w)

\* C6 witness: two waiters of one entry have both left the await after the request
\* that created the entry terminated.
C6_Witness ==
  \E w \in Reqs, x \in Reqs :
    /\ w # x /\ req[w].awaiting # 0 /\ req[w].awaiting = req[x].awaiting
    /\ Replied(req[w].awaiting)
    /\ req[w].pc # "waiting" /\ req[x].pc # "waiting"

\* Request r, which created an in-flight entry, fails in this step.
ProducerFails(r) == ~req[r].thrown /\ req'[r].thrown /\ req'[r].path = "fresh"

\* C7: when a producer fails, the in-flight entry of its key is removed, every
\* waiter's promise is rejected, nothing is stored in the completed cache, the
\* producer's client receives the error, and every rejected waiter goes on to route
\* and dispatch its own request.
C7_ProducerFailure ==
  [][/\ \A r \in Reqs :
          ProducerFails(r)
            => /\ req[r].key \notin DOMAIN dedup'.inflight
               /\ \A w \in Reqs :
                    (req[w].pc = "waiting" /\ req[w].key = req[r].key)
                      => dedup'.promises[req[w].awaiting].state = "rejected"
               /\ dedup'.completed = dedup.completed
               /\ req'[r].pc = "done" /\ req'[r].reply.status >= 400
     /\ \A w \in Reqs :
          (req[w].pc = "waiting" /\ dedup.promises[req[w].awaiting].state = "rejected"
             /\ req'[w] # req[w])
            => /\ req'[w].path = "retry"
               /\ \/ req'[w].pc = "dispatching" /\ req'[w].dispatches = 1
                  \/ req'[w].pc = "done" /\ req'[w].thrown]_vars

\* C7 witness: a producer failed with waiters, and a rejected waiter is dispatching.
C7_Witness ==
  \E p \in Reqs, w \in Reqs :
    /\ req[p].path = "fresh" /\ req[p].thrown /\ req[p].reply.status = 502
    /\ req[w].path = "retry" /\ req[w].awaiting = p /\ req[w].pc = "dispatching"
    /\ dedup.promises[p].state = "rejected"
    /\ req[p].key \notin DOMAIN dedup.completed

\* C8: a streaming request bypasses deduplication: none of its steps changes the
\* dedup cache, and it is never a cache hit, a waiter or a producer.
C8_StreamingBypassesDedup ==
  [][\A r \in Reqs :
       (req'[r] # req[r] /\ req'[r].stream)
         => /\ dedup' = dedup
            /\ req'[r].path = "stream"
            /\ req'[r].awaiting = 0]_vars

\* C8 witness: a streaming request is under way although the cache holds a fresh
\* completed entry for its messages.
C8_Witness ==
  \E r \in Reqs :
    /\ req[r].stream /\ req[r].pc = "streaming"
    /\ req[r].key \in DOMAIN dedup.completed
    /\ dedup.completed[req[r].key].completedAt = now

\* C9: an arriving non-streaming request is answered from the completed cache if and
\* only if an entry exists with now - completedAt <= ttl; the replay carries the
\* stored status and body; an older entry is deleted.
C9_CompletedTtl ==
  [][\A r \in Reqs :
       (req[r].pc = "idle" /\ req'[r].pc # "idle" /\ ~req'[r].stream)
         => LET k == req'[r].key
                has == k \in DOMAIN dedup.completed
                fresh == has /\ now - dedup.completed[k].completedAt <= TtlMs
            IN /\ (req'[r].path = "cacheHit") <=> fresh
               /\ fresh => /\ req'[r].pc = "done"
                           /\ req'[r].reply = Reply(dedup.completed[k].status,
                                                    dedup.completed[k].body)
                           /\ dedup' = dedup
               /\ (has /\ ~fresh) => k \notin DOMAIN dedup'.completed]_vars

\* C9 witness: one request was answered from the cache with another request's body,
\* and one arrived after an earlier response had expired and was handled afresh.
C9_Witness ==
  /\ \E h \in Reqs : req[h].path = "cacheHit" /\ req[h].reply.body.from # h
  /\ \E f \in Reqs, a \in Reqs :
       /\ a < f /\ req[f].path = "fresh" /\ req[a].key = req[f].key
       /\ ~req[a].stream /\ Replied(a) /\ req[a].reply.status = 200
       /\ a \notin req[f].overlap

\* ========================================================= routing claims
\* C10 (as stated): a model of the preference list that is rate-limited at routing
\* time is not the model a request is dispatched to (after overrides and session
\* pinning) while another model is available.
C10_NoRateLimitedDispatch ==
  \A r \in AllReqs : ~req[r].limitedPick

\* An override that forces a model.
Forces(override) == override.kind # "none" /\ override.forcedModelId # ""

\* Request r has been routed: decision.tier is known.
Routed(r) == req[r].tier # ""

\* C11: a classification with confidence < 0.70 and tier below complex, with no
\* override forcing a model, is routed at a tier at least one step above its own
\* (above the tier classified, and above the escalated tier when that is below
\* complex).
C11_ConfidenceStepUp ==
  \A r \in AllReqs :
    (Routed(r) /\ req[r].cls.lowConfidence /\ ~Forces(req[r].override))
      => /\ req[r].cls.tier # "complex"
            => TIER_RANK[req[r].tier] >= TIER_RANK[req[r].cls.tier] + 1
         /\ req[r].clsTier # "complex"
            => TIER_RANK[req[r].tier] >= TIER_RANK[req[r].clsTier] + 1

\* C11 witness: a low-confidence simple request without override is being
\* dispatched at standard, and it belongs to a session.
C11_Witness ==
  \E r \in AllReqs :
    /\ req[r].pc = "dispatching" /\ req[r].session # 0
    /\ req[r].cls = Classification("simple", TRUE) /\ req[r].override = NoOverride
    /\ req[r].tier = "standard"

\* C12: under a tool_calling override the routed tier is never below standard: the
\* floor comes first and the confidence step-up second, so simple is routed at
\* standard when confident and at complex when not, standard is kept when confident
\* (complex when not), and complex is kept.
C12_ToolCallingFloor ==
  \A r \in AllReqs :
    (Routed(r) /\ req[r].override.kind = "tool_calling")
      => /\ TIER_RANK[req[r].tier] >= TIER_RANK["standard"]
         /\ req[r].tier = IF req[r].clsTier = "complex" \/ req[r].cls.lowConfidence
                          THEN "complex" ELSE "standard"

\* C12 witness: a simple, low-confidence request with tools is being dispatched at
\* complex.
C12_Witness ==
  \E r \in AllReqs :
    /\ req[r].pc = "dispatching" /\ req[r].session = 0
    /\ req[r].cls = Classification("simple", TRUE)
    /\ req[r].override.kind = "tool_calling"
    /\ req[r].tier = "complex"

\* The models available in the current state: provider configured, not rate-limited.
Available == {m \in Models : IsAvailable(cooldowns, m, now)}

Configured(k) == IF k = "setup-token" THEN anthropic.hasSetup ELSE anthropic.hasEnterprise

\* Key type k is cooling down now.
Cooling(k) == CooldownUntil(dualKey, k) # 0 /\ now < CooldownUntil(dualKey, k)

\* Dispatch d selects its keys in this step.
Selects(d) == calls[d].pc = "idle" /\ calls'[d].pc # "idle"

\* C14 (as stated): after an upstream 429 on key type T, no dispatch started within
\* the cooldown window that follows uses T as its primary key while the other key
\* type is available (configured and not cooling down).
C14_NoPrimaryAfter429 ==
  [][\A d \in Calls, T \in KeyTypes :
       (Selects(d) /\ last429At[T] # 0 /\ now - last429At[T] < KeyCooldownMs
          /\ Configured(OtherKey(T)) /\ ~Cooling(OtherKey(T)))
         => calls'[d].primary # T]_vars

\* The primary attempt of dispatch d fails with 429 or 401 in this step.
PrimaryRejected(d) ==
  /\ calls[d].pc = "primary" /\ calls'[d].pc # "primary"
  /\ ~calls'[d].ok
  /\ (calls'[d].pc = "done" => calls'[d].error \in {401, 429})

\* C15 (as stated): when the primary attempt returns 429 or 401 the primary's key
\* type is put in cooldown and, if a fallback was selected, exactly one retry is made
\* with it; a result from the retry carries failover = true and the fallback's type,
\* a result from the primary failover = false and the primary's type; no dispatch
\* makes more than two attempts.
C15_FailoverOnce ==
  [][\A d \in Calls :
       /\ PrimaryRejected(d)
            => /\ CooldownUntil(dualKey', calls[d].primary) = now + KeyCooldownMs
               /\ calls[d].fallback # NoKey
                    => calls'[d].pc = "fallback" /\ calls'[d].attempts = 2
               /\ calls[d].fallback = NoKey => calls'[d].pc = "done"
       /\ (calls[d].pc = "fallback" /\ calls'[d].ok)
            => calls'[d].failover /\ calls'[d].keyType = calls[d].fallback
       /\ (calls[d].pc = "primary" /\ calls'[d].ok)
            => ~calls'[d].failover /\ calls'[d].keyType = calls[d].primary
       /\ calls'[d].attempts <= 2]_vars

\* C16: selectKeys returns no primary when no key is configured; the only configured
\* key with no fallback; with both configured the preferred type when it is not
\* cooling down, with the other type as fallback only if that one is not cooling
\* down; and the other type with no fallback when the preferred type is cooling down.
C16_SelectKeys ==
  [][\A d \in Calls :
       Selects(d)
         => LET pref == IF anthropic.preferSetup THEN "setup-token" ELSE "enterprise"
                other == OtherKey(pref)
                primary == calls'[d].primary
                fallback == calls'[d].fallback
            IN \/ /\ ~Configured(pref) /\ ~Configured(other)
                  /\ primary = NoKey /\ fallback = NoKey
               \/ /\ Configured(pref) /\ ~Configured(other)
                  /\ primary = pref /\ fallback = NoKey
               \/ /\ ~Configured(pref) /\ Configured(other)
                  /\ primary = other /\ fallback = NoKey
               \/ /\ Configured(pref) /\ Configured(other) /\ ~Cooling(pref)
                  /\ primary = pref
                  /\ fallback = IF Cooling(other) THEN NoKey ELSE other
               \/ /\ Configured(pref) /\ Configured(other) /\ Cooling(pref)
                  /\ primary = other /\ fallback = NoKey]_vars

\* C16 witness: with both keys configured the preferred key was selected as primary
\* with no fallback, the other key cooling down.
C16_Witness ==
  \E d \in Calls :
    /\ calls[d].pc = "primary"
    /\ anthropic.hasSetup /\ anthropic.hasEnterprise
    /\ calls[d].primary = (IF anthropic.preferSetup THEN "setup-token" ELSE "enterprise")
    /\ calls[d].fallback = NoKey
    /\ Cooling(OtherKey(calls[d].primary))

\* ================================================= log and header claims
\* C17 (as stated): a request that has written its response has caused exactly one
\* routing-log entry, whichever path produced the response; no request causes more
\* than one.
C17_ExactlyOneLogEntry ==
  \A r \in AllReqs :
    /\ req[r].logged <= 1
    /\ (req[r].pc = "done" /\ req[r].reply # Undefined) => req[r].logged = 1

\* C19 (as stated): a response, or the head of a streamed response, is written only
\* after the five X-Throttle headers have been set on it.
C19_ThrottleHeadersAlways ==
  \A r \in AllReqs :
    (req[r].reply # Undefined \/ req[r].pc = "streaming") => req[r].headers

\* ======================================================= streaming claims
\* The events written to the client, heartbeat comments left out.
WrittenEvents == SelectSeq(sse.written, LAMBDA w : w.kind = "event")

\* The token counts reported by a sequence of written events, latest value first.
RECURSIVE Accumulate(_, _)
Accumulate(events, acc) ==
  IF events = <<>> THEN acc
  ELSE LET tokens == ExtractAnthropicTokens(Head(events).event, Head(events).data)
       IN Accumulate(Tail(events),
            [inputTokens  |-> IF tokens.inputTokens # 0 - 1 THEN tokens.inputTokens
                              ELSE acc.inputTokens,
             outputTokens |-> IF tokens.outputTokens # 0 - 1 THEN tokens.outputTokens
                              ELSE acc.outputTokens])

\* C18: once the upstream stream of a streaming response is open, its end (normal
\* end or read error, the client gone or not) always runs the finalization: the
\* handler finishes with the heartbeat interval cleared, the response ended and
\* exactly one log entry, which carries the token counts of the events processed;
\* no log entry is appended before.
C18_Finalization ==
  /\ [](/\ sse.pc = "reading" => sse.log = <<>>
        /\ sse.pc \notin {"idle", "reading"}
             => /\ sse.pc = "done"
                /\ ~sse.heartbeatInterval
                /\ sse.ended
                /\ sse.log = <<Accumulate(WrittenEvents, IdleStream.accumulator)>>)
  /\ (sse.pc = "reading" ~> sse.pc = "done")

\* C18 witness: a stream finalized after a read error in mid-body, the client gone,
\* with token counts in its log entry.
C18_Witness ==
  /\ sse.pc = "done"
  /\ sse.clientGone
  /\ sse.pos < Len(sse.upstream)
  /\ Len(sse.log) = 1
  /\ sse.log[1].inputTokens = 1

\* The length of one event on the wire, and the i-th event of the upstream body.
EventLen == Len(SseEvent("message_start", "usage_in_1"))
UpstreamEvent(i) ==
  Emitted(<<sse.upstream[EventLen * (i - 1) + 2]>>, <<sse.upstream[EventLen * (i - 1) + 5]>>)

\* The upstream events received whole.
ReceivedEvents == [i \in 1..(sse.pos \div EventLen) |-> UpstreamEvent(i)]

\* C20 (as stated): when the response has ended, the events written to the client
\* are the upstream events received, in order, each with its event name and data,
\* nothing added or dropped; an event cut off after its data payload may be passed
\* on or left out.
C20_Passthrough ==
  sse.pc = "done"
    => \/ WrittenEvents = ReceivedEvents
       \/ /\ sse.pos % EventLen >= 5
          /\ WrittenEvents = Append(ReceivedEvents, UpstreamEvent(sse.pos \div EventLen + 1))

\* ==================================================== rate-limiter claim
\* C23: isRateLimited(m) is true exactly when m has been marked (and not cleared
\* since) and now < the expiresAt of the mark executed last, that expiry being the
\* one entry kept for m; a read that answers false leaves no entry for m; marking
\* or clearing a model never changes the answer for another model.
C23_RateLimiter ==
  /\ [](\A m \in Models :
          /\ IsRateLimited(cooldowns, m, now) <=> (markedUntil[m] # 0 /\ now < markedUntil[m])
          /\ IsRateLimited(cooldowns, m, now) => cooldowns[m] = markedUntil[m]
          /\ (lastCall.op = "isRateLimited" /\ lastCall.res.model = m /\ ~lastCall.res.limited
                /\ ~IsRateLimited(cooldowns, m, now))
               => m \notin DOMAIN cooldowns)
  /\ [][\A n \in Models :
          (now' = now /\ lastCall'.op \in {"markRateLimited", "clear"} /\ lastCall'.res.model # n)
            => (IsRateLimited(cooldowns', n, now) <=> IsRateLimited(cooldowns, n, now))]_vars

\* C23 witness: a second mark on a model has replaced a later expiry by an earlier
\* one, another model being rate-limited.
C23_Witness ==
  /\ lastCall.op = "markRateLimited"
  /\ lastCall.res.replaced > lastCall.res.expiresAt
  /\ cooldowns[lastCall.res.model] = lastCall.res.expiresAt
  /\ \E n \in Models \ {lastCall.res.model} : IsRateLimited(cooldowns, n, now)


\* ------------------------------------------------- claims on the HTTP handlers
\* A request the handler has taken past the cache lookup and the routing step.
Handled(r) == req[r].pc \notin {"idle", "waiting"}

\* C21: a request whose X-Throttle-Force-Model header is `opus` is dispatched to
\* the opus model, whatever its body, its classification, the state of its session
\* and the content of the response cache.
C21_ForcedOpus ==
  \A r \in AllReqs :
    (Handled(r) /\ req[r].forceHeader = "opus") =>
      (req[r].dispatches >= 1 /\ req[r].model = FORCE_MODEL_MAP["opus"])

\* C26: a request whose X-Throttle-Force-Model header is not a known alias is
\* answered with status 400 and is neither routed nor dispatched.
C26_UnknownAliasRejected ==
  \A r \in AllReqs :
    (Handled(r) /\ req[r].forceHeader \notin {""} \cup DOMAIN FORCE_MODEL_MAP) =>
      (/\ req[r].pc = "done"
       /\ req[r].reply.status = 400
       /\ req[r].routed = ""
       /\ req[r].dispatches = 0)

\* The step in which the handler routes request r: r leaves the idle state with a
\* routing decision.
RoutingStep(r) == req[r].pc = "idle" /\ req'[r].routed # ""

\* C24: a request with a session id whose session has a live pin is dispatched to
\* the pinned model when the pinned tier is at least the routing decision's tier;
\* when the decision's tier is strictly higher, the pin becomes the decision's model
\* and tier and the request is dispatched to the decision's model.
C24_SessionPinRule ==
  [][\A r \in AllReqs :
       (RoutingStep(r) /\ req'[r].session # 0) =>
         LET sid == req'[r].session
             pin == SessionGet(sessions, sid, now).res
         IN pin # Undefined =>
              /\ TIER_RANK[pin.tier] >= TIER_RANK[req'[r].tier] => req'[r].model = pin.modelId
              /\ TIER_RANK[req'[r].tier] > TIER_RANK[pin.tier] =>
                   /\ sid \in DOMAIN sessions'
                   /\ sessions'[sid].modelId = req'[r].routed
                   /\ sessions'[sid].tier = req'[r].tier
                   /\ req'[r].model = req'[r].routed]_vars

\* C28: when the override of a request forces a model that is rate-limited at
\* routing time, routeRequest does not return the forced model: it returns the model
\* it resolves for the same classification without an override, and the decision
\* carries the override's kind.
C28_ForcedModelRateLimited ==
  [][\A r \in AllReqs :
       (/\ RoutingStep(r)
        /\ Forces(req'[r].override)
        /\ IsRateLimited(cooldowns, req'[r].override.forcedModelId, now)) =>
         LET decision == RouteRequest(req'[r].cls, req'[r].override, cooldowns, now)
             plain == RouteRequest(req'[r].cls, NoOverride, cooldowns, now)
         IN /\ decision.ok
            /\ decision.model # req'[r].override.forcedModelId
            /\ plain.ok => decision.model = plain.model
            /\ decision.override = req'[r].override.kind]_vars

\* The step in which dispatch or streamDispatch of request r rejects with an
\* upstream error of the given status, which the handler receives.
Surfaced(r, status) ==
  /\ req[r].pc \in {"dispatching", "streamDispatching"}
  /\ req'[r].pc = "done"
  /\ req'[r].thrown
  /\ req'[r].error = status

\* The limiter's entry of model m is written in the step.
Marked(m) ==
  /\ m \in DOMAIN cooldowns'
  /\ m \notin DOMAIN cooldowns \/ cooldowns'[m] # cooldowns[m]

\* C29: a dispatch to a model of a non-Anthropic provider is answered after one
\* upstream attempt; when a dispatch rejects with 429 the model is rate-limited in
\* the limiter and the client gets the error; when it rejects with another status
\* the client gets the error and the limiter is unchanged; the limiter's entry of a
\* model is written only in a step that surfaces a 429 for that model.
C29_MarkedIff429 ==
  [][/\ \A r \in AllReqs :
          /\ Surfaced(r, 429) =>
               /\ IsRateLimited(cooldowns', req[r].model, now)
               /\ cooldowns'[req[r].model] = now + CooldownMs
               /\ req'[r].reply = ErrorReply(429)
          /\ (Surfaced(r, req'[r].error) /\ req'[r].error # 429) =>
               /\ cooldowns' = cooldowns
               /\ req'[r].reply = ErrorReply(UpstreamErrorStatus(req'[r].error))
          /\ (Surfaced(r, req'[r].error) /\ ModelProvider[req[r].model] # "anthropic")
               => req'[r].dispatches = 1
     /\ \A m \in Models :
          Marked(m) => \E r \in AllReqs : Surfaced(r, 429) /\ req[r].model = m]_vars

\* C29 witness: a streaming dispatch to a model of a non-Anthropic provider has
\* rejected with 429 after its one attempt and the model is rate-limited.
C29_Witness ==
  \E r \in AllReqs :
    /\ req[r].pc = "done" /\ req[r].stream /\ req[r].thrown /\ req[r].error = 429
    /\ ModelProvider[req[r].model] # "anthropic"
    /\ req[r].dispatches = 1
    /\ IsRateLimited(cooldowns, req[r].model, now)
    /\ req[r].reply = ErrorReply(429)

\* The step in which the handling of request r ends in an error: the handler
\* throws, the upstream has no body, or reading the upstream stream fails.
FailsIn(r) ==
  /\ req[r].pc # "done"
  /\ req'[r].pc = "done"
  /\ req'[r].thrown \/ req'[r].readError \/ req'[r].reply.status >= 400

\* C22: when the handling of a request with a session id ends in an error, at
\* whatever stage, the session's failure marker is set: hasRecentFailure for that
\* session, called next within the window, returns true.
C22_FailureMarksSession ==
  [][\A r \in AllReqs :
       (FailsIn(r) /\ req'[r].session # 0) =>
         SessionHasRecentFailure(sessions', req'[r].session, now').res]_vars

\* C25: the body of every successful non-streaming response is in the format of
\* the endpoint the request arrived on, whether the response comes from the
\* request's own dispatch, from the cache or from an in-flight request.
C25_EndpointFormat ==
  \A r \in AllReqs :
    (req[r].pc = "done" /\ ~req[r].stream /\ req[r].reply.status = 200) =>
      req[r].reply.body.format = req[r].clientFormat

\* ------------------------------------------------ claims on the streaming loop
\* C27: once the client has disconnected during streaming the upstream read is
\* aborted: no further chunk is read and nothing more is written to the client.
C27_DisconnectAborts ==
  [][(sse.pc = "reading" /\ sse.clientGone) =>
       (sse'.pos = sse.pos /\ sse'.written = sse.written)]_vars

\* The number of heartbeat comments among the writes w.
Beats(w) == Cardinality({i \in DOMAIN w : w[i] = Heartbeat})

\* C30: a `: heartbeat` comment is written only after the SSE headers are sent and
\* before the first upstream chunk is read: none once a chunk has been read and
\* none once the response has ended.
C30_HeartbeatWindow ==
  [][Beats(sse'.written) > Beats(sse.written) =>
       /\ sse.pc = "reading"
       /\ sse.pos = 0
       /\ ~sse.heartbeatCleared
       /\ ~sse.ended]_vars

\* C30 witness: a stream on which a heartbeat was written first and upstream
\* events after it has ended.
C30_Witness ==
  /\ sse.pc = "done"
  /\ sse.pos > 0
  /\ Len(sse.written) >= 2
  /\ sse.written[1] = Heartbeat
  /\ Beats(sse.written) = 1

\* The (event, data) pairs among the writes w.
EventsOf(w) == SelectSeq(w, LAMBDA x : x.kind = "event")

\* The parser after one read that delivers the whole text at once.
OneChunk(text) ==
  LET lines == SplitLines(text, <<>>, <<>>)
  IN HandleLines([IdleStream EXCEPT !.buffer = lines[Len(lines)]],
                 SubSeq(lines, 1, Len(lines) - 1))

\* C31: the SSE parser is independent of the chunk boundaries: however the bytes
\* received so far were split into reads, the (event, data) pairs handed to
\* processStreamChunk, the buffer, currentEvent and currentData are those of a
\* single read of the same bytes, and so are the pairs after the final flush.
C31_ChunkIndependent ==
  LET one == OneChunk(SubSeq(sse.upstream, 1, sse.pos))
  IN /\ sse.pc = "reading" =>
          /\ EventsOf(sse.written) = EventsOf(one.written)
          /\ sse.buffer = one.buffer
          /\ sse.currentEvent = one.currentEvent
          /\ sse.currentData = one.currentData
     /\ sse.pc = "done" => EventsOf(sse.written) = EventsOf(Finalize(one).written)

\* C31 witness: a read has ended inside the second event of the stream, after the
\* event's name and before the end of its data line.
C31_Witness ==
  /\ sse.pc = "reading"
  /\ EventsOf(sse.written) # <<>>
  /\ sse.currentEvent # <<>>
  /\ sse.buffer # <<>>

\* ------------------------------------------- claims on the failure marker
\* The step is a call of hasRecentFailure(id).
HasRecentFailureCalled(id) ==
  now' = now /\ lastCall'.op = "hasRecentFailure" /\ lastCall'.id = id

\* C32: hasRecentFailure(id) answers true exactly when markFailed(id) was called
\* on the existing session at most the window ago and no hasRecentFailure(id) has
\* answered true since; so the first call within the window answers true, every
\* later one false until the next markFailed, and an older marker yields false.
C32_OneShotFailure ==
  [][\A id \in SessionIds :
       HasRecentFailureCalled(id) =>
         (lastCall'.res <=> (failMark[id] # 0 /\ now - failMark[id] <= WithinMs))]_vars

\* C38: set(id, ..) on an existing session, whether it upgrades the pin or keeps
\* it, leaves the session's lastFailedAt unchanged.
C38_SetKeepsFailureMarker ==
  [][\A id \in SessionIds, m \in PinModels, tier \in Tiers :
       (CallSet(id, m, tier) /\ SessionGet(sessions, id, now).res # Undefined) =>
         sessions'[id].lastFailedAt = sessions[id].lastFailedAt]_vars

\* ------------------------------------------------- claim on session expiry
\* The step is a call of the store's operation op.
StoreCalled(op) == now' = now /\ lastCall'.op = op

\* Session id is in the store and idle for no longer than the timeout.
Fresh(id) == id \in DOMAIN sessions /\ now - sessions[id].lastUsedAt <= TimeoutMs

\* C35: get(id) returns the pin exactly when the session is in the store with
\* now - lastUsedAt <= timeout, and otherwise deletes the entry and returns absent;
\* cleanup() removes exactly the sessions with now - lastUsedAt > timeout and leaves
\* the others unchanged; no call but set changes the lastUsedAt of a session.
C35_ExpiryRule ==
  [][/\ StoreCalled("get") =>
          LET id == lastCall'.id
          IN /\ Fresh(id) => /\ lastCall'.res = Pin(sessions[id].modelId, sessions[id].tier)
                             /\ sessions' = sessions
             /\ ~Fresh(id) => /\ lastCall'.res = Undefined
                              /\ DOMAIN sessions' = DOMAIN sessions \ {id}
                              /\ \A o \in DOMAIN sessions' : sessions'[o] = sessions[o]
     /\ StoreCalled("cleanup") =>
          /\ DOMAIN sessions' = {id \in DOMAIN sessions : Fresh(id)}
          /\ \A o \in DOMAIN sessions' : sessions'[o] = sessions[o]
     /\ ~StoreCalled("set") =>
          \A o \in DOMAIN sessions \cap DOMAIN sessions' :
            sessions'[o].lastUsedAt = sessions[o].lastUsedAt]_vars

\* C35 witness: a get has just deleted a session idle for longer than the timeout.
C35_Witness ==
  /\ lastCall.op = "get"
  /\ lastCall.res = Undefined
  /\ lastCall.id \notin DOMAIN sessions
  /\ lastSetAt[lastCall.id] # 0
  /\ now - lastSetAt[lastCall.id] > TimeoutMs

\* ------------------------------------------- claim on failure escalation
\* Session sid carries a failure marker that hasRecentFailure would consume now.
HasMarker(sid) ==
  /\ sid \in DOMAIN sessions
  /\ sessions[sid].lastFailedAt # 0
  /\ now - sessions[sid].lastFailedAt <= WithinMs

\* The classification the handler routes with: one tier up after a recent failure.
Escalated(cls, sid) ==
  IF HasMarker(sid) /\ cls.tier # "complex"
  THEN [cls EXCEPT !.tier = TIER_ORDER[TierIndex(cls.tier) + 2]]
  ELSE cls

\* C33: a request of a session with an unconsumed failure marker within the window
\* and a classified tier below complex is routed with the tier one step above the
\* classified tier, and that tier is the one offered to the session pin; a request
\* of a session without such a marker is routed with its classified tier; the
\* marker is consumed by the request, so the next one is not escalated.
C33_FailureEscalation ==
  [][\A r \in AllReqs :
       (RoutingStep(r) /\ req'[r].session # 0) =>
         LET sid == req'[r].session
             cls2 == Escalated(req'[r].cls, sid)
             live == SessionGet(sessions, sid, now).res
         IN /\ req'[r].clsTier = cls2.tier
            /\ req'[r].routed = RouteRequest(cls2, req'[r].override, cooldowns, now).model
            /\ TIER_RANK[sessions'[sid].tier] =
                 IF live # Undefined THEN Max(TIER_RANK[live.tier], TIER_RANK[cls2.tier])
                 ELSE TIER_RANK[cls2.tier]
            /\ sessions'[sid].lastFailedAt = 0]_vars

\* C33 witness: a request classified simple was routed as standard after a failure
\* in its session, the pin is at standard and the marker is gone.
C33_Witness ==
  \E r \in AllReqs :
    /\ req[r].session # 0 /\ req[r].routed # ""
    /\ req[r].cls.tier = "simple" /\ req[r].clsTier = "standard"
    /\ sessions[req[r].session].tier = "standard"
    /\ sessions[req[r].session].lastFailedAt = 0

\* ------------------------------------------- claims on the override detector
\* detectOverrides has just been called.
Detected == lastCall.op = "detectOverrides"

\* The prompt is an inline force command.
IsInlineForce(content) == content \in {"/opus", "/sonnet", "/flash"}

\* The alias an inline force command names.
InlineAlias(content) ==
  CASE content = "/opus" -> "opus" [] content = "/sonnet" -> "sonnet"
    [] content = "/flash" -> "flash"

\* The first two rules of the detector do not match the arguments of the call.
NoEarlierRule ==
  /\ ~IsHeartbeatOrSummary(lastCall.content)
  /\ lastCall.forceModel \notin DOMAIN FORCE_MODEL_MAP
  /\ ~IsInlineForce(lastCall.content)

\* The parent request id of the call is in the log.
ParentFound == lastCall.id # 0 /\ lastCall.id \in DOMAIN lastCall.log

\* C34: detectOverrides returns the first rule that matches, in the order heartbeat
\* or summary pattern, force-model header, inline force prefix, sub-agent
\* inheritance from a parent found in the log, tool calling, none; so a heartbeat
\* prompt with a force-model value yields heartbeat, and a parent request id that
\* is not in the log yields what the call yields without a parent.
C34_RuleOrder ==
  Detected =>
    LET res == lastCall.res
        heartbeat == IsHeartbeatOrSummary(lastCall.content)
        header == lastCall.forceModel \in DOMAIN FORCE_MODEL_MAP
        inline == IsInlineForce(lastCall.content)
    IN /\ heartbeat => res.kind = "heartbeat"
       /\ (~heartbeat /\ header) =>
            res = [kind |-> ForceKind(lastCall.forceModel),
                   forcedModelId |-> FORCE_MODEL_MAP[lastCall.forceModel]]
       /\ (~heartbeat /\ ~header /\ inline) =>
            res = [kind |-> ForceKind(InlineAlias(lastCall.content)),
                   forcedModelId |-> FORCE_MODEL_MAP[InlineAlias(lastCall.content)]]
       /\ (NoEarlierRule /\ ParentFound) =>
            res.kind \in {"sub_agent_inherit", "sub_agent_stepdown"}
       /\ (NoEarlierRule /\ ~ParentFound /\ lastCall.hasTools) => res.kind = "tool_calling"
       /\ (NoEarlierRule /\ ~ParentFound /\ ~lastCall.hasTools) => res = NoOverride

\* C34 witness: a heartbeat prompt was sent with a force-model value and a parent
\* request id that is in the log.
C34_Witness ==
  /\ Detected
  /\ IsHeartbeatOrSummary(lastCall.content)
  /\ lastCall.forceModel = "opus"
  /\ ParentFound
  /\ lastCall.res.kind = "heartbeat"

\* C37: for a parent request found in the log (and no heartbeat or force rule
\* matching), detectOverrides returns sub_agent_stepdown with the model one position
\* below the parent's model when the parent is above the floor of the hierarchy,
\* sub_agent_inherit with the parent's model when the parent is at the floor or not
\* in the hierarchy; the returned model is never above the parent's.
C37_SubAgentStepDown ==
  (Detected /\ NoEarlierRule /\ ParentFound) =>
    LET parent == lastCall.log[lastCall.id]
        parentIndex == HierarchyIndex(parent)
        res == lastCall.res
    IN /\ parentIndex > 0 =>
            res = [kind |-> "sub_agent_stepdown", forcedModelId |-> MODEL_HIERARCHY[parentIndex]]
       /\ parentIndex <= 0 =>
            res = [kind |-> "sub_agent_inherit", forcedModelId |-> parent]
       /\ parentIndex >= 0 =>
            /\ HierarchyIndex(res.forcedModelId) >= 0
            /\ HierarchyIndex(res.forcedModelId) <= parentIndex

\* C37 witness: the parent ran on the top model of the hierarchy and the sub-agent
\* is stepped down to the model below it.
C37_Witness ==
  /\ Detected /\ NoEarlierRule /\ ParentFound
  /\ lastCall.log[lastCall.id] = MODEL_HIERARCHY[Len(MODEL_HIERARCHY)]
  /\ lastCall.res = [kind |-> "sub_agent_stepdown",
                     forcedModelId |-> MODEL_HIERARCHY[Len(MODEL_HIERARCHY) - 1]]

\* ----------------------------------------------- claim on the decision's tag
\* C36: the decision routeRequest returns for a request carries the override tag
\* tool_calling under a tool_calling override, whether the model was chosen from the
\* preference list or by the cheapest-available fallback; under a forcing override
\* the tag is the override's kind, and with no override it is none.
C36_DecisionOverrideTag ==
  [][\A r \in AllReqs :
       (RoutingStep(r) /\ req'[r].session = 0) =>
         LET override == req'[r].override
             decision == RouteRequest(req'[r].cls, override, cooldowns, now)
         IN /\ decision.ok
            /\ decision.model = req'[r].routed
            /\ decision.override = IF Forces(override) \/ override.kind = "tool_calling"
                                   THEN override.kind ELSE "none"]_vars

\* The non-streaming requests with dedup key k whose upstream dispatch is under way.
InDispatch(k) == {a \in AllReqs : req[a].pc = "dispatching" /\ ~req[a].stream /\ req[a].key = k}

\* Request r takes the step that ends its own upstream dispatch.
EndsDispatch(r) == req[r].pc = "dispatching" /\ req'[r].pc = "done"

\* C39 (as stated): at most one non-streaming request per dedup key is in upstream
\* dispatch at any moment, waiters that resume after their producer failed
\* included, and an in-flight entry is resolved or rejected only by the request
\* that created it.
C39_SingleDispatchPerKey ==
  [][/\ \A k \in Keys : Cardinality(InDispatch(k)') <= 1
     /\ \A p \in AllReqs :
          (dedup.promises[p].state = "pending" /\ dedup'.promises[p].state # "pending")
            => EndsDispatch(p)]_vars

\* C39, the part that holds: as long as no waiter has resumed after a rejection,
\* at most one request per key is in dispatch and it holds the in-flight entry.
C39_SingleDispatchWithoutRetry ==
  (\A a \in AllReqs : req[a].path # "retry")
    => \A k \in Keys :
         /\ Cardinality(InDispatch(k)) <= 1
         /\ \A a \in InDispatch(k) : k \in DOMAIN dedup.inflight /\ dedup.inflight[k] = a


\* Request r takes a step of a request served by the dedup cache: it is answered
\* from the completed cache, joins the in-flight entry of its key as a waiter, or
\* is answered with the response its in-flight entry resolved with.
ServedByDedup(r) ==
  \/ req[r].pc = "idle" /\ req'[r].pc = "done" /\ req'[r].path = "cacheHit"
  \/ req[r].pc = "idle" /\ req'[r].pc = "waiting"
  \/ req[r].pc = "waiting" /\ req'[r].pc = "done" /\ req'[r].path = "waiter"

\* C40: a non-streaming request answered from the completed dedup cache or as a
\* waiter on an in-flight entry changes nothing but its own response: no
\* classification or routing, no session pin created or refreshed, no failure
\* marker consumed, no upstream dispatch, no rate limit marked, no routing-log
\* entry, the dedup cache entries unchanged, every other request untouched.
C40_ServedByDedupFrame ==
  [][\A r \in AllReqs :
       ServedByDedup(r) =>
         /\ req'[r].routed = "" /\ req'[r].model = "" /\ req'[r].clsTier = ""
         /\ req'[r].dispatches = 0
         /\ req'[r].logged = 0
         /\ sessions' = sessions
         /\ cooldowns' = cooldowns
         /\ markedUntil' = markedUntil
         /\ dedup'.completed = dedup.completed
         /\ dedup'.inflight = dedup.inflight
         /\ dedup'.promises = dedup.promises
         /\ UNCHANGED keyVars
         /\ \A a \in AllReqs \ {r} : req'[a] = req[a]]_vars

\* C40 witness: a request of a session was answered as a waiter with the response
\* of the request it waited on, later than the session's pin was last used.
C40_Witness ==
  \E w \in AllReqs :
    /\ req[w].pc = "done" /\ req[w].path = "waiter" /\ req[w].session # 0
    /\ req[w].reply = req[req[w].awaiting].reply
    /\ req[w].reply.status = 200
    /\ req[w].session \in DOMAIN sessions
    /\ sessions[req[w].session].lastUsedAt < now

\* C40, the other case: a request of a session was answered from the completed
\* cache, later than the session's pin was last used.
C40_CacheHitServed ==
  \E c \in AllReqs :
    /\ req[c].pc = "done" /\ req[c].path = "cacheHit" /\ req[c].session # 0
    /\ req[c].dispatches = 0
    /\ req[c].session \in DOMAIN sessions
    /\ sessions[req[c].session].lastUsedAt < now

====
